---- MODULE Spec2Model ----
(***************************************************************************)
(* fastpmr: pairwise mismatch rates between genetic samples.               *)
(*                                                                         *)
(* The module models the pairwise accumulation engine (src/src/counts.rs), *)
(* the allele model (src/src/model.rs) and the Site streams of the four    *)
(* genotype decoders (src/src/reader/*.rs).                                *)
(*                                                                         *)
(* Indices are 0-based as in the source; a Site's genotypes are a TLA+     *)
(* sequence, so the call of sample index i is site[i + 1].                 *)
(***************************************************************************)
EXTENDS Integers, Sequences, FiniteSets, TLC

VARIABLES
    samples,            \* Counts.samples
    indices_to_count,   \* Counts.indices_to_count: None or a mask over the n*n cells
    mismatches,         \* Counts.mismatches, flat n*n, row-major
    totals,             \* Counts.totals
    pairs_given,        \* the pairs_to_indices_to_count argument of Counts::new
    sites,              \* the Sites consume_reader has pulled so far, in pull order
    pulled,             \* the number of Sites pulled from the reader
    result,             \* "running", "ok" (Ok(self)) or "err" (Err(e))
    rates,              \* the rows written by write_mismatch_rates, None before
    atomic_mismatches,  \* consume_reader_parallel: the shared AtomicU64 cells
    atomic_totals,
    workers,            \* consume_reader_parallel: each pool thread's position
    stream_done,        \* the bridged iterator has returned None
    seq_counts,         \* consume_reader's counters on the Sites the workers pulled
    rd,                 \* the decoder: its fields and its backing matrix file
    yielded,            \* the items the decoder's next() has returned so far
    args,               \* the arguments of the operation of run() under study
    ret,                \* what that operation returned, None before it returns
    outputs             \* the files run has written to the output directory

vars == <<samples, indices_to_count, mismatches, totals, pairs_given, sites, pulled,
          result, rates, atomic_mismatches, atomic_totals, workers, stream_done,
          seq_counts, rd, yielded, args, ret, outputs>>

newVars == <<samples, indices_to_count, pairs_given>>
parVars == <<atomic_mismatches, atomic_totals, workers, stream_done, seq_counts>>
readerVars == <<rd, yielded>>
callVars == <<args, ret>>
runVars == <<outputs>>

(***************************************************************************)
(* Bounds of the model.                                                    *)
(***************************************************************************)
\* The longest Site stream an accumulation is run on.
MaxSites == 2
\* The size of the worker pool of the parallel accumulation.
NWorkers == 2
\* The most index pairs handed to Counts::new.
MaxPairs == 1
\* The largest variant count of a decoder's backing files.
MaxVariants == 3
\* The longest variant-index specification, in characters.
MaxSpecLen == 5
\* The most identifier pairs of an explicit pair list.
MaxListed == 2
\* The largest per-sample covered count and coverage threshold.
MaxCovered == 2
\* The most lines of a sample sidecar handed to select_samples.
MaxFileSamples == 3
\* The bytes of a block the decoders are given, the most positions decoded from
\* a block, and the most sample blocks of a transposed matrix.
BlockBytes == 2
MaxBlockSamples == 5
MaxMatrixSamples == 2
\* The largest --threads value, and how far above the parallel threshold the
\* sample counts go.
MaxThreads == 3
MaxOverThreshold == 2
\* How far past the least header block the matrix file sizes go, in bytes.
MaxExtraBytes == 2

(***************************************************************************)
(* Option<T>: None is the empty tuple, Some(x) the one-element tuple.      *)
(***************************************************************************)
None == << >>
Some(x) == << x >>
IsSome(o) == Len(o) = 1
Unwrap(o) == o[1]

(***************************************************************************)
(* model.rs: Allele and its mismatch table.                                *)
(***************************************************************************)
Ref == 0
Het == 1
Alt == 2
Missing == 3
Alleles == {Ref, Het, Alt, Missing}

MISMATCH ==
    << <<0, 1, 2, 0>>,   \* Ref vs. *
       <<1, 1, 1, 0>>,   \* Het vs. *
       <<2, 1, 0, 0>>,   \* Alt vs. *
       <<0, 0, 0, 0>> >> \* Missing vs. *

Abs(x) == IF x < 0 THEN -x ELSE x

\* A plausible slip: the distance of the codes, which makes Het vs. Het 0.
mismatch_code_distance(a, b) == IF a = Missing \/ b = Missing THEN 0 ELSE Abs(a - b)

\* A plausible slip: every differing allele is counted from both sides.
mismatch_doubled(a, b) == 2 * MISMATCH[a + 1][b + 1]

mismatch(a, b) == MISMATCH[a + 1][b + 1]

(***************************************************************************)
(* counts.rs: cell addressing and the pair-inclusion mask.                 *)
(***************************************************************************)
\* A plausible slip: row-major addressing without the min/max ordering.
idx_from_parts_unordered(n, i, j) == n * i + j

idx_from_parts(n, i, j) == IF i < j THEN n * i + j ELSE n * j + i

n_samples == Len(samples)

idx(i, j) == idx_from_parts(n_samples, i, j)

Cells(n) == 0 .. (n * n - 1)

Zeros(n) == [c \in Cells(n) |-> 0]

\* A plausible slip: the mask marks the cell n*left+right as given.
new_mask_as_given(n, pairs) ==
    IF pairs = None THEN None
    ELSE Some([c \in Cells(n) |->
                 \E p \in Unwrap(pairs) : p[1] # p[2] /\ n * p[1] + p[2] = c])

\* Counts::new: the mask built from the optional set of index pairs.
new_mask(n, pairs) ==
    IF pairs = None THEN None
    ELSE Some([c \in Cells(n) |->
                 \E p \in Unwrap(pairs) :
                     p[1] # p[2] /\ idx_from_parts(n, p[1], p[2]) = c])

\* A plausible slip: a missing mask admits nothing.
mask_admits_none_false(mask, c) == IF mask = None THEN FALSE ELSE Unwrap(mask)[c]

\* indices_to_count.as_ref().map_or(true, |mask| mask[counter_idx])
mask_admits(mask, c) == IF mask = None THEN TRUE ELSE Unwrap(mask)[c]

should_count_pair(i, j) ==
    IF i = j THEN FALSE ELSE mask_admits(indices_to_count, idx(i, j))

(***************************************************************************)
(* counts.rs: the per-Site loop body shared by consume_reader and          *)
(* consume_reader_parallel.                                                *)
(***************************************************************************)
\* A plausible slip: Missing calls are kept in the working list.
present_keeps_missing(site) == [k \in 1 .. Len(site) |-> <<k - 1, site[k]>>]

\* The (sample index, allele) pairs of the non-missing calls, in sample order.
present(site) ==
    SelectSeq([k \in 1 .. Len(site) |-> <<k - 1, site[k]>>],
              LAMBDA p : p[2] # Missing)

\* The positions (i, j), i < j, of the nested loops over a list of length len,
\* in loop order, from (i, j) on.
RECURSIVE LoopPairs(_, _, _)
LoopPairs(i, j, len) ==
    IF i >= len THEN << >>
    ELSE IF j > len THEN LoopPairs(i + 1, i + 2, len)
    ELSE << <<i, j>> >> \o LoopPairs(i, j + 1, len)

\* `+= 2; // Two alleles per site`
AllelesPerSite == 2

\* The cell and the mismatch of the pair at positions pos of the list pr.
Contribution(n, pr, pos) ==
    [cell |-> idx_from_parts(n, pr[pos[1]][1], pr[pos[2]][1]),
     add |-> mismatch(pr[pos[1]][2], pr[pos[2]][2])]

\* One iteration of the inner loop of consume_reader.
AddPair(n, mask, c, pr, pos) ==
    LET k == Contribution(n, pr, pos)
    IN  IF mask_admits(mask, k.cell)
        THEN [m |-> [c.m EXCEPT ![k.cell] = @ + k.add],
              t |-> [c.t EXCEPT ![k.cell] = @ + AllelesPerSite]]
        ELSE c

RECURSIVE AddPairs(_, _, _, _, _)
AddPairs(n, mask, c, pr, todo) ==
    IF todo = << >> THEN c
    ELSE AddPairs(n, mask, AddPair(n, mask, c, pr, Head(todo)), pr, Tail(todo))

\* The body of `for site in reader` for one Site.
AccumulateSite(n, mask, c, site) ==
    LET pr == present(site)
    IN  AddPairs(n, mask, c, pr, LoopPairs(1, 2, Len(pr)))

\* consume_reader over a whole stream, from zeroed counters.
RECURSIVE ConsumeAll(_, _, _, _)
ConsumeAll(n, mask, c, stream) ==
    IF stream = << >> THEN c
    ELSE ConsumeAll(n, mask, AccumulateSite(n, mask, c, Head(stream)), Tail(stream))

(***************************************************************************)
(* counts.rs: the accessors.                                               *)
(***************************************************************************)
site_overlaps == [c \in Cells(n_samples) |-> totals[c] \div 2]

\* An f32 rate: not-a-number, or the quotient of two counters, kept as the
\* pair it is computed from.
NaN == [nan |-> TRUE, num |-> 0, den |-> 0]
Quot(m, t) == [nan |-> FALSE, num |-> m, den |-> t]

\* A plausible slip: the rate of an empty cell is left at its initial 0.0.
rate_of_cell_zero_default(m, t) == IF t = 0 THEN Quot(0, 1) ELSE Quot(m, t)

\* if self.totals[idx] == 0 { NAN } else { mismatches as f32 / totals as f32 }
rate_of_cell(m, t) == IF t = 0 THEN NaN ELSE Quot(m, t)

\* mismatch_rates: the loops over i < j, filling pairs[idx] and rates[idx].
RECURSIVE FillRates(_, _)
FillRates(out, todo) ==
    IF todo = << >> THEN out
    ELSE LET i == Head(todo)[1] - 1
             j == Head(todo)[2] - 1
             c == idx(i, j)
         IN  FillRates([out EXCEPT ![c] =
                            [pair |-> <<samples[i + 1], samples[j + 1]>>,
                             rate |-> rate_of_cell(mismatches[c], totals[c])]],
                       Tail(todo))

mismatch_rates ==
    FillRates([c \in Cells(n_samples) |-> [pair |-> <<"", "">>, rate |-> Quot(0, 1)]],
              LoopPairs(1, 2, n_samples))

\* A plausible slip: only the upper triangle is filled.
Fill2d_upper_only(matrix, flat, todo) ==
    [i \in 0 .. n_samples - 1 |->
        [j \in 0 .. n_samples - 1 |-> IF i < j THEN flat[idx(i, j)] ELSE 0]]

\* The loops shared by mismatches_2d, totals_2d and site_overlaps_2d: for
\* i < j, matrix[(i, j)] and matrix[(j, i)] are set from cell idx(i, j).
RECURSIVE Fill2d(_, _, _)
Fill2d(matrix, flat, todo) ==
    IF todo = << >> THEN matrix
    ELSE LET i == Head(todo)[1] - 1
             j == Head(todo)[2] - 1
             c == idx(i, j)
         IN  Fill2d([matrix EXCEPT ![i][j] = flat[c], ![j][i] = flat[c]],
                    flat, Tail(todo))

Zeros2d == [i \in 0 .. n_samples - 1 |-> [j \in 0 .. n_samples - 1 |-> 0]]

mismatches_2d == Fill2d(Zeros2d, mismatches, LoopPairs(1, 2, n_samples))
totals_2d == Fill2d(Zeros2d, totals, LoopPairs(1, 2, n_samples))
site_overlaps_2d ==
    Fill2d(Zeros2d, [c \in Cells(n_samples) |-> totals[c] \div 2],
           LoopPairs(1, 2, n_samples))

(***************************************************************************)
(* The inputs of an accumulation.                                          *)
(***************************************************************************)
\* The sample lists of the unit tests of counts.rs.
SampleLists == { <<"A", "B">>, <<"A", "B", "C">> }

\* Every Site over n samples.
Sites(n) == [1 .. n -> Alleles]

\* The optional sets of index pairs handed to Counts::new.
PairInputs(n) ==
    {None} \cup
    { Some(ps) : ps \in { S \in SUBSET ((0 .. n - 1) \X (0 .. n - 1)) :
                              Cardinality(S) <= MaxPairs } }

\* No decoder, no worker pool.
NoReader == [kind |-> "none"]
ReaderIdle == rd = NoReader /\ yielded = << >>
CallIdle == args = None /\ ret = None
\* run has written no file.
NothingWritten == outputs = {}
ParIdle ==
    /\ atomic_mismatches = << >>
    /\ atomic_totals = << >>
    /\ workers = << >>
    /\ stream_done = FALSE
    /\ seq_counts = None

\* run hands the reader to consume_reader (no pool) or to
\* consume_reader_parallel (a pool of worker threads).
Sequential == workers = << >>

\* Counts::new(samples, pairs_to_indices_to_count)
New(sample_list, pairs) ==
    /\ samples = sample_list
    /\ pairs_given = pairs
    /\ indices_to_count = new_mask(Len(sample_list), pairs)
    /\ mismatches = Zeros(Len(sample_list))
    /\ totals = Zeros(Len(sample_list))

(***************************************************************************)
(* Sequential accumulation: Counts::consume_reader, then the report.       *)
(***************************************************************************)
Init ==
    /\ NothingWritten
    /\ \E sample_list \in SampleLists :
           \E pairs \in PairInputs(Len(sample_list)) : New(sample_list, pairs)
    /\ sites = << >>
    /\ pulled = 0
    /\ result = "running"
    /\ rates = None
    /\ ParIdle
    /\ ReaderIdle
    /\ CallIdle

\* The reader yields Some(Ok(site)): one iteration of `for site in reader`.
ConsumeSite(site) ==
    /\ Sequential
    /\ result = "running"
    /\ pulled < MaxSites
    /\ LET c == AccumulateSite(n_samples, indices_to_count,
                               [m |-> mismatches, t |-> totals], site)
       IN  /\ mismatches' = c.m
           /\ totals' = c.t
    /\ sites' = Append(sites, site)
    /\ pulled' = pulled + 1
    /\ UNCHANGED <<newVars, result, rates, parVars, readerVars, callVars, runVars>>

\* The reader yields None: the loop ends and consume_reader returns Ok(self).
StreamEnd ==
    /\ Sequential
    /\ result = "running"
    /\ result' = "ok"
    /\ UNCHANGED <<newVars, mismatches, totals, sites, pulled, rates, parVars, readerVars, callVars, runVars>>

\* The reader yields Some(Err(e)): `site?` returns the error.
StreamError ==
    /\ Sequential
    /\ result = "running"
    /\ result' = "err"
    /\ UNCHANGED <<newVars, mismatches, totals, sites, pulled, rates, parVars, readerVars, callVars, runVars>>

\* A plausible slip: only the pairs with a non-empty cell are written.
ReportRows_skip_empty ==
    LET mr == mismatch_rates
        todo == LoopPairs(1, 2, n_samples)
    IN  SelectSeq(
            [k \in 1 .. Len(todo) |->
                LET counter_idx == idx(todo[k][1] - 1, todo[k][2] - 1)
                IN  [id1 |-> mr[counter_idx].pair[1],
                     id2 |-> mr[counter_idx].pair[2],
                     n_overlap |-> site_overlaps[counter_idx],
                     mismatch_rate |-> mr[counter_idx].rate]],
            LAMBDA row : row.n_overlap # 0)

\* write_mismatch_rates: one row per pair i < j, in loop order.
ReportRows ==
    LET mr == mismatch_rates
        todo == LoopPairs(1, 2, n_samples)
    IN  [k \in 1 .. Len(todo) |->
            LET counter_idx == idx(todo[k][1] - 1, todo[k][2] - 1)
            IN  [id1 |-> mr[counter_idx].pair[1],
                 id2 |-> mr[counter_idx].pair[2],
                 n_overlap |-> site_overlaps[counter_idx],
                 mismatch_rate |-> mr[counter_idx].rate]]

\* run: the outputs are written once the accumulation has returned Ok.
WriteMismatchRates ==
    /\ result = "ok"
    /\ rates = None
    /\ rates' = Some(ReportRows)
    /\ UNCHANGED <<newVars, mismatches, totals, sites, pulled, result, parVars, readerVars, callVars, runVars>>

Next ==
    \/ \E site \in Sites(n_samples) : ConsumeSite(site)
    \/ StreamEnd
    \/ StreamError
    \/ WriteMismatchRates

Spec == Init /\ [][Next]_vars

(***************************************************************************)
(* Parallel accumulation: Counts::consume_reader_parallel.  The pool's     *)
(* threads pull Sites from the bridged reader one at a time (the pull is    *)
(* under the bridge's lock) and apply each admitted pair's contribution by  *)
(* two fetch_add calls on the shared cells, mismatches first.               *)
(***************************************************************************)
Pool == DOMAIN workers

IdleWorker == [pc |-> "idle", todo |-> << >>]

\* A plausible slip: the parallel loop leaves out the mask test.
WorkerTodo_unmasked(n, mask, site) ==
    LET pr == present(site)
        todo == LoopPairs(1, 2, Len(pr))
    IN  [k \in 1 .. Len(todo) |-> Contribution(n, pr, todo[k])]

\* The fetch_add pairs a worker performs for a Site: the contributions of the
\* admitted pairs of its working list, in loop order.
WorkerTodo(n, mask, site) ==
    LET pr == present(site)
        todo == LoopPairs(1, 2, Len(pr))
    IN  SelectSeq([k \in 1 .. Len(todo) |-> Contribution(n, pr, todo[k])],
                  LAMBDA k : mask_admits(mask, k.cell))

InitPar ==
    /\ NothingWritten
    /\ \E sample_list \in SampleLists :
           \E pairs \in PairInputs(Len(sample_list)) : New(sample_list, pairs)
    /\ sites = << >>
    /\ pulled = 0
    /\ result = "running"
    /\ rates = None
    /\ atomic_mismatches = Zeros(n_samples)
    /\ atomic_totals = Zeros(n_samples)
    /\ \E size \in 1 .. NWorkers : workers = [w \in 1 .. size |-> IdleWorker]
    /\ stream_done = FALSE
    /\ seq_counts = Some([m |-> Zeros(n_samples), t |-> Zeros(n_samples)])
    /\ ReaderIdle
    /\ CallIdle

\* Worker w takes the lock and the reader yields Some(Ok(site)).
ParPull(w, site) ==
    /\ result = "running"
    /\ workers[w].pc = "idle"
    /\ ~stream_done
    /\ pulled < MaxSites
    /\ LET todo == WorkerTodo(n_samples, indices_to_count, site)
       IN  workers' = [workers EXCEPT ![w] =
                          IF todo = << >> THEN IdleWorker
                          ELSE [pc |-> "add_mismatch", todo |-> todo]]
    /\ pulled' = pulled + 1
    /\ seq_counts' = Some(AccumulateSite(n_samples, indices_to_count,
                                         Unwrap(seq_counts), site))
    /\ UNCHANGED <<newVars, mismatches, totals, sites, result, rates,
                   atomic_mismatches, atomic_totals, stream_done, readerVars, callVars, runVars>>

\* mismatches[counter_idx].fetch_add(mismatch, Relaxed)
ParAddMismatch(w) ==
    /\ workers[w].pc = "add_mismatch"
    /\ atomic_mismatches' =
          [atomic_mismatches EXCEPT ![Head(workers[w].todo).cell] =
              @ + Head(workers[w].todo).add]
    /\ workers' = [workers EXCEPT ![w].pc = "add_total"]
    /\ UNCHANGED <<newVars, mismatches, totals, sites, pulled, result, rates,
                   atomic_totals, stream_done, seq_counts, readerVars, callVars, runVars>>

\* totals[counter_idx].fetch_add(2, Relaxed), then on to the next admitted pair
\* or, after the last one, back to the bridge for the next Site.
ParAddTotal(w) ==
    /\ workers[w].pc = "add_total"
    /\ atomic_totals' =
          [atomic_totals EXCEPT ![Head(workers[w].todo).cell] = @ + AllelesPerSite]
    /\ workers' = [workers EXCEPT ![w] =
                      IF Tail(workers[w].todo) = << >> THEN IdleWorker
                      ELSE [pc |-> "add_mismatch", todo |-> Tail(workers[w].todo)]]
    /\ UNCHANGED <<newVars, mismatches, totals, sites, pulled, result, rates,
                   atomic_mismatches, stream_done, seq_counts, readerVars, callVars, runVars>>

\* The reader yields None to worker w, or has done so to another worker: the
\* bridge is exhausted and w leaves.
ParPullNone(w) ==
    /\ result = "running"
    /\ workers[w].pc = "idle"
    /\ stream_done' = TRUE
    /\ workers' = [workers EXCEPT ![w].pc = "done"]
    /\ UNCHANGED <<newVars, mismatches, totals, sites, pulled, result, rates,
                   atomic_mismatches, atomic_totals, seq_counts, readerVars, callVars, runVars>>

\* try_for_each has returned Ok: the cells are loaded into self and
\* consume_reader_parallel returns Ok(self).
ParJoin ==
    /\ ~Sequential
    /\ result = "running"
    /\ \A w \in Pool : workers[w].pc = "done"
    /\ mismatches' = atomic_mismatches
    /\ totals' = atomic_totals
    /\ result' = "ok"
    /\ UNCHANGED <<newVars, sites, pulled, rates, parVars, readerVars, callVars, runVars>>

NextPar ==
    \/ \E w \in Pool : \E site \in Sites(n_samples) : ParPull(w, site)
    \/ \E w \in Pool : ParAddMismatch(w)
    \/ \E w \in Pool : ParAddTotal(w)
    \/ \E w \in Pool : ParPullNone(w)
    \/ ParJoin

SpecPar == InitPar /\ [][NextPar]_vars

(***************************************************************************)
(* Both accumulations: run picks one of them for the whole pass.           *)
(***************************************************************************)
InitBoth == Init \/ InitPar

NextBoth == Next \/ NextPar

SpecBoth == InitBoth /\ [][NextBoth]_vars

(***************************************************************************)
(* The end-to-end scenario of the integration tests (tests/common/mod.rs): *)
(* 4 samples, 30,002 variants, accumulated sequentially without a mask.    *)
(***************************************************************************)
N_SAMPLES == 4
CORE_VARIANTS == 30000
\* --min-covered-snps, default_value_t
DEFAULT_MIN_COVERED_SNPS == 30000
HIGH_MISMATCH_VARIANTS == 14999
EXTRA_IDENTICAL_VARIANTS == 1
EXTRA_MISSING_VARIANTS == 1
TOTAL_VARIANTS == CORE_VARIANTS + EXTRA_IDENTICAL_VARIANTS + EXTRA_MISSING_VARIANTS

\* sample_ids()
ScenarioSamples == <<"Sample1", "Sample2", "Sample3", "Sample4">>

\* build_variants()[v], as the decoders yield it.
ScenarioSite(v) ==
    IF v < HIGH_MISMATCH_VARIANTS
    THEN [k \in 1 .. N_SAMPLES |-> IF k = 1 THEN Ref ELSE Alt]
    ELSE IF v < CORE_VARIANTS
    THEN [k \in 1 .. N_SAMPLES |-> Het]
    ELSE IF v < CORE_VARIANTS + EXTRA_IDENTICAL_VARIANTS
    THEN [k \in 1 .. N_SAMPLES |-> Alt]
    ELSE [k \in 1 .. N_SAMPLES |-> IF k = 1 THEN Missing ELSE Alt]

InitScenario ==
    /\ NothingWritten
    /\ New(ScenarioSamples, None)
    /\ sites = << >>
    /\ pulled = 0
    /\ result = "running"
    /\ rates = None
    /\ ParIdle
    /\ ReaderIdle
    /\ CallIdle

\* One iteration of `for site in reader` on the dataset's next variant.
ScenarioConsume ==
    /\ result = "running"
    /\ pulled < TOTAL_VARIANTS
    /\ LET c == AccumulateSite(n_samples, indices_to_count,
                               [m |-> mismatches, t |-> totals], ScenarioSite(pulled))
       IN  /\ mismatches' = c.m
           /\ totals' = c.t
    /\ pulled' = pulled + 1
    /\ UNCHANGED <<newVars, sites, result, rates, parVars, readerVars, callVars, runVars>>

\* The reader yields None after the last variant.
ScenarioEnd ==
    /\ result = "running"
    /\ pulled = TOTAL_VARIANTS
    /\ result' = "ok"
    /\ UNCHANGED <<newVars, mismatches, totals, sites, pulled, rates, parVars, readerVars, callVars, runVars>>

NextScenario ==
    \/ ScenarioConsume
    \/ ScenarioEnd
    \/ WriteMismatchRates

SpecScenario == InitScenario /\ [][NextScenario]_vars

(***************************************************************************)
(* The Site streams of the four decoders: Iterator::next of                *)
(* PackedAncestryMapReader, TransposedPackedAncestryMapReader,             *)
(* PlinkBedReader and EigenstratReader (the Unpacked-Text decoder).        *)
(*                                                                         *)
(* rd holds the decoder's fields and what its matrix file delivers:        *)
(*   readable  the number of variant blocks read_exact delivers before it  *)
(*             fails (a truncated file, a failing device);                 *)
(*   lines     the matrix lines of the Unpacked-Text file, each "ok" (its  *)
(*             stripped length is the sample count), "bad_len" (it is not) *)
(*             or "read_err" (read_line fails); the file ends after them.  *)
(***************************************************************************)
DecoderKinds == {"packed", "transposed", "plink", "unpacked"}
LineKinds == {"ok", "bad_len", "read_err"}

SiteItem(v) == [kind |-> "site", variant |-> v, error |-> "", found |-> 0]
ErrItem(e, v, f) == [kind |-> "err", variant |-> v, error |-> e, found |-> f]
NoneItem == [kind |-> "none", variant |-> 0, error |-> "", found |-> 0]

\* A plausible slip: the variant filter is not consulted.
Keep_all(r, v) == TRUE

\* match &self.variant_indices_to_keep { Some(set) => set.contains(&idx), None => true }
Keep(r, v) ==
    IF r.variant_indices_to_keep = None THEN TRUE
    ELSE v \in Unwrap(r.variant_indices_to_keep)

\* A plausible slip: n_sites reports the unfiltered variant count.
n_sites_unfiltered(r) == r.n_variants

\* SiteReader::n_sites
n_sites(r) ==
    IF r.kind = "packed" THEN r.n_variants
    ELSE IF r.variant_indices_to_keep # None
    THEN Cardinality(Unwrap(r.variant_indices_to_keep))
    ELSE r.n_variants

\* PackedAncestryMapReader::next
PackedNext(r) ==
    IF r.next_variant_idx >= r.n_variants
    THEN [rd |-> r, item |-> NoneItem]
    ELSE IF r.next_variant_idx < r.readable
    THEN [rd |-> [r EXCEPT !.next_variant_idx = @ + 1],
          item |-> SiteItem(r.next_variant_idx)]
    ELSE [rd |-> [r EXCEPT !.next_variant_idx = r.n_variants],
          item |-> ErrItem("ReadWithoutPath", r.next_variant_idx, 0)]

\* TransposedPackedAncestryMapReader::next
RECURSIVE TransposedNext(_)
TransposedNext(r) ==
    IF r.next_variant_idx >= r.n_variants
    THEN [rd |-> r, item |-> NoneItem]
    ELSE LET keep == Keep(r, r.next_variant_idx)
             r2 == [r EXCEPT !.next_variant_idx = @ + 1]
         IN  IF keep THEN [rd |-> r2, item |-> SiteItem(r.next_variant_idx)]
             ELSE TransposedNext(r2)

\* PlinkBedReader::next
RECURSIVE PlinkNext(_)
PlinkNext(r) ==
    IF r.next_variant_idx >= r.n_variants
    THEN [rd |-> r, item |-> NoneItem]
    ELSE LET keep == Keep(r, r.next_variant_idx)
             r2 == [r EXCEPT !.next_variant_idx = @ + 1]
         IN  IF r.next_variant_idx >= r.readable
             THEN [rd |-> [r EXCEPT !.next_variant_idx = r.n_variants],
                   item |-> ErrItem("ReadWithoutPath", r.next_variant_idx, 0)]
             ELSE IF keep THEN [rd |-> r2, item |-> SiteItem(r.next_variant_idx)]
             ELSE PlinkNext(r2)

\* EigenstratReader::next
RECURSIVE UnpackedNext(_)
UnpackedNext(r) ==
    IF r.next_variant_idx >= r.n_variants
    THEN [rd |-> r, item |-> NoneItem]
    ELSE LET keep == Keep(r, r.next_variant_idx)
             line_num == r.next_variant_idx + 1
             poisoned == [r EXCEPT !.next_variant_idx = r.n_variants]
             r2 == [r EXCEPT !.next_variant_idx = @ + 1]
         IN  IF line_num <= Len(r.lines) /\ r.lines[line_num] = "read_err"
             THEN [rd |-> poisoned,
                   item |-> ErrItem("ReadWithoutPath", r.next_variant_idx, 0)]
             ELSE IF line_num > Len(r.lines)
             THEN \* found is read after next_variant_idx has been overwritten
                  [rd |-> poisoned,
                   item |-> ErrItem("EigenstratGenoVariantCount", r.next_variant_idx,
                                    poisoned.next_variant_idx)]
             ELSE IF keep
             THEN IF r.lines[line_num] = "bad_len"
                  THEN [rd |-> r2,
                        item |-> ErrItem("EigenstratGenoFields", r.next_variant_idx,
                                         line_num)]
                  ELSE [rd |-> r2, item |-> SiteItem(r.next_variant_idx)]
             ELSE UnpackedNext(r2)

\* Iterator::next of the decoder behind the SiteReader.
DecoderNext(r) ==
    IF r.kind = "packed" THEN PackedNext(r)
    ELSE IF r.kind = "transposed" THEN TransposedNext(r)
    ELSE IF r.kind = "plink" THEN PlinkNext(r)
    ELSE UnpackedNext(r)

\* No accumulation is running.
EngineIdle ==
    /\ samples = << >>
    /\ pairs_given = None
    /\ indices_to_count = None
    /\ mismatches = << >>
    /\ totals = << >>
    /\ sites = << >>
    /\ pulled = 0
    /\ result = "none"
    /\ rates = None

\* A decoder as its open leaves it: every index of the variant filter is below
\* the variant count (PackedAncestryMapReader::open takes no filter).
Opened(kind, n_variants, filter, readable, lines) ==
    [kind |-> kind,
     n_variants |-> n_variants,
     variant_indices_to_keep |-> filter,
     next_variant_idx |-> 0,
     readable |-> readable,
     lines |-> lines]

LinesUpTo(n) == UNION { [1 .. len -> LineKinds] : len \in 0 .. n }

InitReader ==
    /\ NothingWritten
    /\ EngineIdle
    /\ ParIdle
    /\ CallIdle
    /\ yielded = << >>
    /\ \E kind \in DecoderKinds : \E n_variants \in 1 .. MaxVariants :
          \E filter \in {None} \cup { Some(K) : K \in SUBSET (0 .. n_variants - 1) } :
              /\ kind = "packed" => filter = None
              /\ \/ /\ kind \in {"packed", "plink"}
                    /\ \E readable \in 0 .. n_variants :
                          rd = Opened(kind, n_variants, filter, readable, << >>)
                 \/ /\ kind = "transposed"
                    /\ rd = Opened(kind, n_variants, filter, n_variants, << >>)
                 \/ /\ kind = "unpacked"
                    /\ \E lines \in LinesUpTo(n_variants) :
                          rd = Opened(kind, n_variants, filter, n_variants, lines)

\* One pull on the Site stream.
ReaderNext ==
    /\ rd # NoReader
    /\ Len(yielded) < rd.n_variants + 2
    /\ rd' = DecoderNext(rd).rd
    /\ yielded' = Append(yielded, DecoderNext(rd).item)
    /\ UNCHANGED <<newVars, mismatches, totals, sites, pulled, result, rates, parVars,
                   callVars, runVars>>

NextReader == ReaderNext

SpecReader == InitReader /\ [][NextReader]_vars

(***************************************************************************)
(* Construction of the decoders: the four open functions, reached through  *)
(* InputSpec::open_reader.  args holds the backing files and the filters:  *)
(*   ind       the identifiers of the sample sidecar, in file order;       *)
(*   n_snp     the number of lines of the variant sidecar;                 *)
(*   header    the header of the matrix file: whether its magic and layout *)
(*             are well formed, and the counts a GENO/TGENO header states; *)
(*   blocks    the number of whole blocks that follow the header (variant  *)
(*             blocks, or sample blocks in the transposed layout);         *)
(*   lines     the matrix lines of an Unpacked-Text file;                  *)
(*   samples_to_keep, variant_indices   the filters run() holds.           *)
(***************************************************************************)
OpenOk(r, kept, indices) ==
    [ok |-> TRUE, error |-> "", idx |-> 0, n_variants |-> r.n_variants, sample |-> "",
     rd |-> r, samples |-> kept, sample_indices_to_keep |-> indices]

OpenErr(e, i, n, id) ==
    [ok |-> FALSE, error |-> e, idx |-> i, n_variants |-> n, sample |-> id,
     rd |-> NoReader, samples |-> << >>, sample_indices_to_keep |-> None]

\* The loop of select_samples: keep.remove(&sample_id) succeeds once per identifier.
RECURSIVE SelectLoop(_, _, _, _, _)
SelectLoop(file_samples, pos, keep, filtered_samples, indices) ==
    IF pos >= Len(file_samples)
    THEN [keep |-> keep, filtered_samples |-> filtered_samples, indices |-> indices]
    ELSE LET sample_id == file_samples[pos + 1]
         IN  IF sample_id \in keep
             THEN SelectLoop(file_samples, pos + 1, keep \ {sample_id},
                             Append(filtered_samples, sample_id), Append(indices, pos))
             ELSE SelectLoop(file_samples, pos + 1, keep, filtered_samples, indices)

\* select_samples; missing is the identifier keep.into_iter().next() yields
\* when it is one of those left in keep.
select_samples(file_samples, filter, missing) ==
    IF filter = None
    THEN [ok |-> TRUE, samples |-> file_samples, indices |-> None, sample |-> ""]
    ELSE LET l == SelectLoop(file_samples, 0, Unwrap(filter), << >>, << >>)
         IN  IF l.keep # {}
             THEN [ok |-> FALSE, samples |-> << >>, indices |-> None,
                   sample |-> IF missing \in l.keep THEN missing
                              ELSE CHOOSE id \in l.keep : TRUE]
             ELSE [ok |-> TRUE, samples |-> l.filtered_samples,
                   indices |-> Some(l.indices), sample |-> ""]

\* The indices of a variant-keep set that are not below the variant count.
HighIndices(filter, n_variants) ==
    IF filter = None THEN {} ELSE { i \in Unwrap(filter) : i >= n_variants }

\* set.iter().sorted().find(|&&idx| idx >= n_variants)
FirstHigh(filter, n_variants) ==
    CHOOSE i \in HighIndices(filter, n_variants) :
        \A k \in HighIndices(filter, n_variants) : i <= k

\* set.iter().find(|&&idx| idx >= n_variants): the set's own iteration order
\* decides; bad is the index it meets first when it is one of them.
AnyHigh(filter, n_variants, bad) ==
    IF bad \in HighIndices(filter, n_variants) THEN bad
    ELSE FirstHigh(filter, n_variants)

MinOf(x, y) == IF x <= y THEN x ELSE y

\* PackedAncestryMapReader::open: it takes the three paths and no filter.
PackedOpen(a) ==
    IF ~a.header.ok THEN OpenErr("PackedAncestryMapHeaderFields", 0, 0, "")
    ELSE IF Len(a.ind) # a.header.n_samples
    THEN OpenErr("PackedAncestryMapNAgreement", 0, 0, "")
    ELSE IF a.header.n_samples < 2 THEN OpenErr("SampleCount", 0, 0, "")
    ELSE IF a.n_snp # a.header.n_variants
    THEN OpenErr("PackedAncestryMapVAgreement", 0, 0, "")
    ELSE IF a.header.n_variants < 1 THEN OpenErr("VariantCount", 0, a.header.n_variants, "")
    ELSE OpenOk(Opened("packed", a.header.n_variants, None,
                       MinOf(a.blocks, a.header.n_variants), << >>),
                a.ind, None)

\* TransposedPackedAncestryMapReader::open: it takes a variant filter only.
TransposedOpen(a) ==
    IF ~a.header.ok THEN OpenErr("PackedAncestryMapHeaderFields", 0, 0, "")
    ELSE IF Len(a.ind) # a.header.n_samples
    THEN OpenErr("PackedAncestryMapNAgreement", 0, 0, "")
    ELSE IF a.header.n_samples < 2 THEN OpenErr("SampleCount", 0, 0, "")
    ELSE IF a.n_snp # a.header.n_variants
    THEN OpenErr("PackedAncestryMapVAgreement", 0, 0, "")
    ELSE IF a.header.n_variants < 1 THEN OpenErr("VariantCount", 0, a.header.n_variants, "")
    ELSE IF HighIndices(a.variant_indices, a.header.n_variants) # {}
    THEN OpenErr("VariantIndexHigh",
                 FirstHigh(a.variant_indices, a.header.n_variants) + 1,
                 a.header.n_variants, "")
    ELSE IF a.blocks < a.header.n_samples THEN OpenErr("ReadWithPath", 0, 0, "")
    ELSE IF a.blocks > a.header.n_samples
    THEN OpenErr("PackedAncestryMapFileSize", 0, 0, "")
    ELSE OpenOk(Opened("transposed", a.header.n_variants, a.variant_indices,
                       a.header.n_variants, << >>),
                a.ind, None)

\* PlinkBedReader::open
PlinkOpen(a, missing) ==
    IF ~a.header.ok THEN OpenErr("PlinkBedHeaderMagic", 0, 0, "")
    ELSE IF Len(a.ind) < 2 THEN OpenErr("SampleCount", 0, 0, "")
    ELSE IF a.n_snp < 1 THEN OpenErr("VariantCount", 0, a.n_snp, "")
    ELSE IF a.blocks # a.n_snp THEN OpenErr("PlinkBedFileSize", 0, 0, "")
    ELSE IF HighIndices(a.variant_indices, a.n_snp) # {}
    THEN OpenErr("VariantIndexHigh", FirstHigh(a.variant_indices, a.n_snp) + 1,
                 a.n_snp, "")
    ELSE LET sel == select_samples(a.ind, a.samples_to_keep, missing)
         IN  IF ~sel.ok THEN OpenErr("SamplePairUnknownSample", 0, 0, sel.sample)
             ELSE OpenOk(Opened("plink", a.n_snp, a.variant_indices, a.n_snp, << >>),
                         sel.samples, sel.indices)

\* EigenstratReader::open
UnpackedOpen(a, bad, missing) ==
    IF Len(a.ind) < 2 THEN OpenErr("SampleCount", 0, 0, "")
    ELSE IF a.n_snp < 1 THEN OpenErr("VariantCount", 0, a.n_snp, "")
    ELSE IF HighIndices(a.variant_indices, a.n_snp) # {}
    THEN OpenErr("VariantIndexHigh", AnyHigh(a.variant_indices, a.n_snp, bad) + 1,
                 a.n_snp, "")
    ELSE LET sel == select_samples(a.ind, a.samples_to_keep, missing)
         IN  IF ~sel.ok THEN OpenErr("SamplePairUnknownSample", 0, 0, sel.sample)
             ELSE OpenOk(Opened("unpacked", a.n_snp, a.variant_indices, a.n_snp, a.lines),
                         sel.samples, sel.indices)

\* InputSpec::open_reader
open_reader(a, bad, missing) ==
    IF a.kind = "packed" THEN PackedOpen(a)
    ELSE IF a.kind = "transposed" THEN TransposedOpen(a)
    ELSE IF a.kind = "plink" THEN PlinkOpen(a, missing)
    ELSE UnpackedOpen(a, bad, missing)

IndLists == {<<"A">>} \cup SampleLists
SampleIds == {"A", "B", "C", "Z"}
KeepInputs == {None, Some({"A", "B"}), Some({"B", "Z"})}
VariantFilters == {None} \cup { Some(K) : K \in SUBSET (0 .. MaxVariants) }

\* The headers a matrix file of the kind can carry over the given sidecars.
Headers(kind, n_ind, n_snp) ==
    IF kind \in {"packed", "transposed"}
    THEN [ok : BOOLEAN, n_samples : {n_ind, n_ind + 1}, n_variants : {n_snp, n_snp + 1}]
    ELSE IF kind = "plink"
    THEN [ok : BOOLEAN, n_samples : {n_ind}, n_variants : {n_snp}]
    ELSE [ok : {TRUE}, n_samples : {n_ind}, n_variants : {n_snp}]

OpenInputs ==
    UNION { UNION { UNION {
        [op : {"open"}, kind : {kind}, ind : {ind}, n_snp : {n_snp},
         header : Headers(kind, Len(ind), n_snp),
         blocks : IF kind = "unpacked" THEN {0} ELSE 0 .. MaxVariants + 1,
         lines : IF kind = "unpacked" THEN LinesUpTo(MaxVariants) ELSE {<< >>},
         samples_to_keep : KeepInputs,
         variant_indices : VariantFilters]
        : n_snp \in 0 .. MaxVariants } : ind \in IndLists } : kind \in DecoderKinds }

InitOpen ==
    /\ NothingWritten
    /\ EngineIdle
    /\ ParIdle
    /\ ReaderIdle
    /\ ret = None
    /\ \E a \in OpenInputs : args = Some(a)

\* run(): let mut reader = input.open_reader()?
OpenReader ==
    /\ args # None
    /\ Unwrap(args).op = "open"
    /\ ret = None
    /\ \E bad \in 0 .. MaxVariants : \E missing \in SampleIds :
          LET r == open_reader(Unwrap(args), bad, missing)
          IN  /\ ret' = Some(r)
              /\ rd' = r.rd
    /\ UNCHANGED <<newVars, mismatches, totals, sites, pulled, result, rates, parVars,
                   yielded, args, runVars>>

NextOpen == OpenReader \/ ReaderNext

SpecOpen == InitOpen /\ [][NextOpen]_vars

(***************************************************************************)
(* cli.rs: parse_indices.  A specification is a sequence of characters.    *)
(***************************************************************************)
Digits == <<"0", "1", "2", "3", "4", "5", "6", "7", "8", "9">>
IsDigit(c) == \E i \in 1 .. 10 : Digits[i] = c
DigitVal(c) == (CHOOSE i \in 1 .. 10 : Digits[i] = c) - 1

RECURSIVE ParseDigits(_, _)
ParseDigits(s, acc) ==
    IF s = << >> THEN acc ELSE ParseDigits(Tail(s), 10 * acc + DigitVal(Head(s)))

\* str::parse::<usize> on the characters the model draws: one or more digits.
parse_usize(s) ==
    IF s = << >> \/ \E i \in 1 .. Len(s) : ~IsDigit(s[i])
    THEN [ok |-> FALSE, val |-> 0]
    ELSE [ok |-> TRUE, val |-> ParseDigits(s, 0)]

HasChar(s, c) == \E i \in 1 .. Len(s) : s[i] = c
FirstChar(s, c) == CHOOSE i \in 1 .. Len(s) : s[i] = c /\ \A k \in 1 .. i - 1 : s[k] # c

\* str::split(sep)
RECURSIVE split(_, _)
split(s, sep) ==
    IF ~HasChar(s, sep) THEN <<s>>
    ELSE <<SubSeq(s, 1, FirstChar(s, sep) - 1)>>
         \o split(SubSeq(s, FirstChar(s, sep) + 1, Len(s)), sep)

\* str::trim
RECURSIVE trim(_)
trim(s) ==
    IF s = << >> THEN s
    ELSE IF Head(s) = " " THEN trim(Tail(s))
    ELSE IF s[Len(s)] = " " THEN trim(SubSeq(s, 1, Len(s) - 1))
    ELSE s

\* str::split_once(sep)
split_once(s, sep) ==
    IF ~HasChar(s, sep) THEN None
    ELSE Some(<<SubSeq(s, 1, FirstChar(s, sep) - 1),
                SubSeq(s, FirstChar(s, sep) + 1, Len(s))>>)

\* spec.split(',').map(|s| s.trim()).filter(|s| !s.is_empty())
Items(spec) ==
    LET pieces == split(spec, ",")
        trimmed == [k \in 1 .. Len(pieces) |-> trim(pieces[k])]
    IN  SelectSeq(trimmed, LAMBDA raw : raw # << >>)

\* A plausible slip: only the start of a range is tested.
index_low_start_only(start, end) == start = 0

\* if start == 0 || end == 0
index_low(start, end) == start = 0 \/ end = 0

\* A plausible slip: the index is inserted as given, still 1-based.
zero_based_as_given(i) == i

\* indices.insert(i - 1); // convert to 0-based index
zero_based(i) == i - 1

\* The body of the loop of parse_indices for one item.
ParseItem(raw) ==
    IF split_once(raw, "-") # None
    THEN LET ab == Unwrap(split_once(raw, "-"))
             start == parse_usize(ab[1])
             end == parse_usize(ab[2])
         IN  IF ~start.ok \/ ~end.ok
             THEN [ok |-> FALSE, error |-> "VariantIndexInt", indices |-> {}]
             ELSE IF index_low(start.val, end.val)
             THEN [ok |-> FALSE, error |-> "VariantIndexLow", indices |-> {}]
             ELSE LET lo == IF start.val <= end.val THEN start.val ELSE end.val
                      hi == IF start.val <= end.val THEN end.val ELSE start.val
                  IN  [ok |-> TRUE, error |-> "",
                       indices |-> { zero_based(i) : i \in lo .. hi }]
    ELSE LET single == parse_usize(raw)
         IN  IF ~single.ok
             THEN [ok |-> FALSE, error |-> "VariantIndexInt", indices |-> {}]
             ELSE IF index_low(single.val, single.val)
             THEN [ok |-> FALSE, error |-> "VariantIndexLow", indices |-> {}]
             ELSE [ok |-> TRUE, error |-> "", indices |-> {zero_based(single.val)}]

RECURSIVE ParseLoop(_, _)
ParseLoop(items, indices) ==
    IF items = << >> THEN [ok |-> TRUE, error |-> "", indices |-> indices]
    ELSE LET r == ParseItem(Head(items))
         IN  IF ~r.ok THEN r ELSE ParseLoop(Tail(items), indices \cup r.indices)

parse_indices(spec) == ParseLoop(Items(spec), {})

SpecChars == {"0", "1", "2", "-", ",", " "}
FirstCoreVariants == <<"1", "-", "3", "0", "0", "0", "0">>
SpecStrings ==
    UNION { [1 .. len -> SpecChars] : len \in 0 .. MaxSpecLen } \cup {FirstCoreVariants}

InitParse ==
    /\ NothingWritten
    /\ EngineIdle
    /\ ParIdle
    /\ ReaderIdle
    /\ ret = None
    /\ \E spec \in SpecStrings : args = Some([op |-> "parse_indices", spec |-> spec])

\* build_input_spec: Some(spec) => Some(parse_indices(spec)?)
ParseIndices ==
    /\ args # None
    /\ Unwrap(args).op = "parse_indices"
    /\ ret = None
    /\ ret' = Some(parse_indices(Unwrap(args).spec))
    /\ UNCHANGED <<newVars, mismatches, totals, sites, pulled, result, rates, parVars,
                   readerVars, args, runVars>>

NextParse == ParseIndices

SpecParse == InitParse /\ [][NextParse]_vars

(***************************************************************************)
(* cli.rs: resolve_sample_pairs and build_pair_indices_to_count, and the   *)
(* step of run() that hands their result to Counts::new.                   *)
(***************************************************************************)
\* lookup.get(id) after `for (idx, sample) in samples { lookup.insert(sample, idx) }`:
\* a later line of the same identifier replaces the earlier one.
lookup(sample_list, id) ==
    IF \E i \in 1 .. Len(sample_list) : sample_list[i] = id
    THEN Some((CHOOSE i \in 1 .. Len(sample_list) :
                   /\ sample_list[i] = id
                   /\ \A k \in i + 1 .. Len(sample_list) : sample_list[k] # id) - 1)
    ELSE None

PairsOk(set) == [ok |-> TRUE, error |-> "", sample |-> "", pairs |-> set]
PairsErr(e, id) == [ok |-> FALSE, error |-> e, sample |-> id, pairs |-> {}]

\* A plausible slip: the index pair is inserted in listing order.
ordered_pair_as_listed(left_idx, right_idx) == <<left_idx, right_idx>>

\* let (lo, hi) = if left_idx < right_idx { .. } else { .. }
ordered_pair(left_idx, right_idx) ==
    IF left_idx < right_idx THEN <<left_idx, right_idx>> ELSE <<right_idx, left_idx>>

\* A plausible slip: an empty set is returned like any other.
resolved_even_if_empty(to_keep) == PairsOk(to_keep)

\* if to_keep.is_empty() { return Err(CustomError::SamplePairsEmpty); } Ok(to_keep)
resolved(to_keep) ==
    IF to_keep = {} THEN PairsErr("SamplePairsEmpty", "") ELSE PairsOk(to_keep)

\* The loop of resolve_sample_pairs over the listed pairs.
RECURSIVE ResolveLoop(_, _, _)
ResolveLoop(sample_list, pairs, to_keep) ==
    IF pairs = << >> THEN resolved(to_keep)
    ELSE LET left == Head(pairs)[1]
             right == Head(pairs)[2]
             left_idx == lookup(sample_list, left)
             right_idx == lookup(sample_list, right)
         IN  IF left = right THEN PairsErr("SamplePairDuplicate", left)
             ELSE IF left_idx = None THEN PairsErr("SamplePairUnknownSample", left)
             ELSE IF right_idx = None THEN PairsErr("SamplePairUnknownSample", right)
             ELSE LET lohi == ordered_pair(Unwrap(left_idx), Unwrap(right_idx))
                  IN  IF lohi[1] = lohi[2]
                      THEN PairsErr("SamplePairDuplicate", sample_list[lohi[1] + 1])
                      ELSE ResolveLoop(sample_list, Tail(pairs), to_keep \cup {lohi})

resolve_sample_pairs(sample_list, pairs) == ResolveLoop(sample_list, pairs, {})

\* A plausible slip: a sample covered at exactly the threshold passes.
covered_enough_at_least(count, min_covered_snps) == count >= min_covered_snps

\* if count > min_covered_snps
covered_enough(count, min_covered_snps) == count > min_covered_snps

\* The samples that pass the threshold, or none when it is not applied.
Allowed(covered_snps, min_covered_snps) ==
    IF min_covered_snps > 0
    THEN { i \in 0 .. Len(covered_snps) - 1 :
             covered_enough(covered_snps[i + 1], min_covered_snps) }
    ELSE {}

\* The orders in which allowed.into_iter() can yield the set.
IterationOrders(set) ==
    { o \in [1 .. Cardinality(set) -> set] :
        \A i \in 1 .. Cardinality(set) : \A j \in 1 .. Cardinality(set) :
            i # j => o[i] # o[j] }

\* build_pair_indices_to_count; allowed_indices is the order the set iterates in.
build_pair_indices_to_count(sample_list, sample_pairs, covered_snps, min_covered_snps, allowed_indices) ==
    LET apply_threshold == min_covered_snps > 0
        allowed == Allowed(covered_snps, min_covered_snps)
    IN  IF sample_pairs # None
        THEN LET res == resolve_sample_pairs(sample_list, Unwrap(sample_pairs))
             IN  IF ~res.ok
                 THEN [ok |-> FALSE, error |-> res.error, sample |-> res.sample,
                       value |-> None]
                 ELSE [ok |-> TRUE, error |-> "", sample |-> "",
                       value |-> Some(IF apply_threshold
                                      THEN { p \in res.pairs :
                                               p[1] \in allowed /\ p[2] \in allowed }
                                      ELSE res.pairs)]
        ELSE IF ~apply_threshold \/ Cardinality(allowed) = Len(sample_list)
        THEN [ok |-> TRUE, error |-> "", sample |-> "", value |-> None]
        ELSE [ok |-> TRUE, error |-> "", sample |-> "",
              value |-> Some({ <<allowed_indices[q[1]], allowed_indices[q[2]]>> :
                                 q \in { r \in (1 .. Len(allowed_indices)) \X
                                                (1 .. Len(allowed_indices)) :
                                            r[1] < r[2] } })]

\* The identifier pairs a pair list can hold over the samples of the file and
\* one foreign identifier.
ListedPairs(sample_list) ==
    LET ids == { sample_list[i] : i \in 1 .. Len(sample_list) } \cup {"Z"}
    IN  ids \X ids

PairLists(sample_list) ==
    UNION { [1 .. len -> ListedPairs(sample_list)] : len \in 0 .. MaxListed }

\* The case of the integration test variant_indices_limit_sites: the four
\* samples, each covered at the 30000 kept variants, under the default threshold.
LimitSitesCase ==
    [op |-> "build_pair_indices_to_count", samples |-> ScenarioSamples,
     sample_pairs |-> None,
     covered_snps |-> [i \in 1 .. N_SAMPLES |-> CORE_VARIANTS],
     min_covered_snps |-> DEFAULT_MIN_COVERED_SNPS]

BuildInputs ==
    UNION { [op : {"build_pair_indices_to_count"}, samples : {sample_list},
             sample_pairs : {None} \cup { Some(l) : l \in PairLists(sample_list) },
             covered_snps : [1 .. Len(sample_list) -> 0 .. MaxCovered],
             min_covered_snps : 0 .. MaxCovered]
            : sample_list \in SampleLists } \cup {LimitSitesCase}

InitPairs ==
    /\ NothingWritten
    /\ EngineIdle
    /\ ParIdle
    /\ ReaderIdle
    /\ ret = None
    /\ \E a \in BuildInputs : args = Some(a)

\* run(): build_pair_indices_to_count(..)? followed by Counts::new.
BuildPairIndices ==
    /\ args # None
    /\ Unwrap(args).op = "build_pair_indices_to_count"
    /\ ret = None
    /\ LET a == Unwrap(args)
       IN  \E allowed_indices \in
                 IterationOrders(Allowed(a.covered_snps, a.min_covered_snps)) :
               LET r == build_pair_indices_to_count(a.samples, a.sample_pairs,
                            a.covered_snps, a.min_covered_snps, allowed_indices)
               IN  /\ ret' = Some(r)
                   /\ IF r.ok
                      THEN /\ samples' = a.samples
                           /\ pairs_given' = r.value
                           /\ indices_to_count' = new_mask(Len(a.samples), r.value)
                           /\ mismatches' = Zeros(Len(a.samples))
                           /\ totals' = Zeros(Len(a.samples))
                           /\ result' = "running"
                      ELSE /\ result' = "err"
                           /\ UNCHANGED <<newVars, mismatches, totals>>
    /\ UNCHANGED <<sites, pulled, rates, parVars, readerVars, args, runVars>>

NextPairs == BuildPairIndices

SpecPairs == InitPairs /\ [][NextPairs]_vars

ResolveInputs ==
    UNION { [op : {"resolve_sample_pairs"}, samples : {sample_list},
             pairs : PairLists(sample_list)] : sample_list \in SampleLists }

InitResolve ==
    /\ NothingWritten
    /\ EngineIdle
    /\ ParIdle
    /\ ReaderIdle
    /\ ret = None
    /\ \E a \in ResolveInputs : args = Some(a)

\* resolve_sample_pairs(samples, pairs)
ResolveSamplePairs ==
    /\ args # None
    /\ Unwrap(args).op = "resolve_sample_pairs"
    /\ ret = None
    /\ ret' = Some(resolve_sample_pairs(Unwrap(args).samples, Unwrap(args).pairs))
    /\ UNCHANGED <<newVars, mismatches, totals, sites, pulled, result, rates, parVars,
                   readerVars, args, runVars>>

NextResolve == ResolveSamplePairs

SpecResolve == InitResolve /\ [][NextResolve]_vars

(***************************************************************************)
(* reader/common/samples.rs: select_samples on its own.                    *)
(***************************************************************************)
\* The sample sidecars of up to MaxFileSamples lines; nothing keeps a sidecar
\* from listing an identifier twice.
FileSampleLists == UNION { [1 .. len -> {"A", "B", "C"}] : len \in 1 .. MaxFileSamples }
SampleFilters == {None} \cup { Some(F) : F \in SUBSET SampleIds }

SelectInputs == [op : {"select_samples"}, samples : FileSampleLists, filter : SampleFilters]

InitSelect ==
    /\ NothingWritten
    /\ EngineIdle
    /\ ParIdle
    /\ ReaderIdle
    /\ ret = None
    /\ \E a \in SelectInputs : args = Some(a)

\* select_samples(samples, samples_to_keep)
SelectSamples ==
    /\ args # None
    /\ Unwrap(args).op = "select_samples"
    /\ ret = None
    /\ \E missing \in SampleIds :
          ret' = Some(select_samples(Unwrap(args).samples, Unwrap(args).filter, missing))
    /\ UNCHANGED <<newVars, mismatches, totals, sites, pulled, result, rates, parVars,
                   readerVars, args, runVars>>

NextSelect == SelectSamples

SpecSelect == InitSelect /\ [][NextSelect]_vars

(***************************************************************************)
(* The 2-bit genotype codes of the three binary decoders.                  *)
(***************************************************************************)
\* A u8 of a block.
ByteValues == 0 .. 255

\* `(byte >> shift) & 0b11`
code_at(byte, shift) == (byte \div (2 ^ shift)) % 4

\* A plausible slip: the first position of a byte is read from its lowest pair.
packed_shift_low_first(i) == 2 * (i % 4)

\* packedancestrymap.rs and transposed_packedancestrymap.rs: `6 - 2 * (i % 4)`
packed_shift(i) == 6 - 2 * (i % 4)

\* plink.rs: `(sample_idx % 4) * 2`
plink_shift(sample_idx) == (sample_idx % 4) * 2

\* The match of parse_variant_block and genotypes_for_variant.
PackedAllele(code) ==
    CASE code = 0 -> Alt
      [] code = 1 -> Het
      [] code = 2 -> Ref
      [] code = 3 -> Missing

\* The match of decode_sample.
PlinkAllele(code) ==
    CASE code = 0 -> Ref
      [] code = 1 -> Missing
      [] code = 2 -> Het
      [] code = 3 -> Alt

\* packedancestrymap.rs: parse_variant_block(block, n_samples)
packed_parse_variant_block(block, n) ==
    [k \in 1 .. n |->
        PackedAllele(code_at(block[((k - 1) \div 4) + 1], packed_shift(k - 1)))]

\* transposed_packedancestrymap.rs: genotypes_for_variant(variant_idx) over the
\* in-memory matrix of n (header.n_samples) blocks of sample_block_size bytes.
genotypes_for_variant(genotype_matrix, n, sample_block_size, variant_idx) ==
    LET byte_idx == variant_idx \div 4
        shift == packed_shift(variant_idx)
    IN  [k \in 1 .. n |->
            PackedAllele(code_at(genotype_matrix[(k - 1) * sample_block_size + byte_idx + 1],
                                 shift))]

\* plink.rs: decode_sample(bytes, sample_idx)
decode_sample(bytes, sample_idx) ==
    PlinkAllele(code_at(bytes[(sample_idx \div 4) + 1], plink_shift(sample_idx)))

\* plink.rs: parse_variant_block(block, n_samples, indices_to_keep)
plink_parse_variant_block(block, n, indices_to_keep) ==
    IF indices_to_keep = None
    THEN [k \in 1 .. n |-> decode_sample(block, k - 1)]
    ELSE [k \in 1 .. Len(Unwrap(indices_to_keep)) |->
             decode_sample(block, Unwrap(indices_to_keep)[k])]

\* The bytes of a block after its first: the four codes in both orders.
TailBytes == {27, 228}
\* Bytes holding every code at every position: 00011011, 11100100, 01001110,
\* 10110001.
PatternBytes == {27, 228, 78, 177}

\* The blocks of BlockBytes bytes whose first byte is drawn from first.
DecodeBlocks(first) ==
    { <<f>> \o t : f \in first, t \in [1 .. BlockBytes - 1 -> TailBytes] }

\* The strictly increasing index lists select_samples hands to the PLINK
\* decoder, of one or two samples.
KeepIndexLists(n) ==
    { <<i>> : i \in 0 .. n - 1 }
        \cup { <<p[1], p[2]>> : p \in { q \in (0 .. n - 1) \X (0 .. n - 1) : q[1] < q[2] } }

\* A transposed matrix: n sample blocks, one after the other.
RECURSIVE Matrices(_)
Matrices(n) ==
    IF n = 0 THEN {<< >>}
    ELSE { m \o b : m \in Matrices(n - 1), b \in DecodeBlocks(PatternBytes) }

DecodeInputs ==
    [op : {"packed_block"}, block : DecodeBlocks(ByteValues), n_samples : 1 .. MaxBlockSamples]
    \cup UNION { [op : {"plink_block"}, block : DecodeBlocks(ByteValues), n_samples : {n},
                  indices_to_keep : {None} \cup { Some(ix) : ix \in KeepIndexLists(n) }]
                 : n \in 1 .. MaxBlockSamples }
    \cup UNION { [op : {"transposed_row"}, genotype_matrix : Matrices(n), n_samples : {n},
                  variant_idx : 0 .. MaxBlockSamples - 1]
                 : n \in 1 .. MaxMatrixSamples }

InitDecode ==
    /\ NothingWritten
    /\ EngineIdle
    /\ ParIdle
    /\ ReaderIdle
    /\ ret = None
    /\ \E a \in DecodeInputs : args = Some(a)

DecodeUnchanged ==
    UNCHANGED <<newVars, mismatches, totals, sites, pulled, result, rates, parVars,
                readerVars, args, runVars>>

\* PackedAncestryMapReader::next: parse_variant_block(&self.block_buf, n_samples)
PackedDecode ==
    /\ args # None
    /\ Unwrap(args).op = "packed_block"
    /\ ret = None
    /\ ret' = Some(packed_parse_variant_block(Unwrap(args).block, Unwrap(args).n_samples))
    /\ DecodeUnchanged

\* TransposedPackedAncestryMapReader::next: genotypes_for_variant(next_variant_idx)
TransposedDecode ==
    /\ args # None
    /\ Unwrap(args).op = "transposed_row"
    /\ ret = None
    /\ ret' = Some(genotypes_for_variant(Unwrap(args).genotype_matrix, Unwrap(args).n_samples,
                                         BlockBytes, Unwrap(args).variant_idx))
    /\ DecodeUnchanged

\* PlinkBedReader::next: parse_variant_block(&block_buf, n_samples, indices)
PlinkDecode ==
    /\ args # None
    /\ Unwrap(args).op = "plink_block"
    /\ ret = None
    /\ ret' = Some(plink_parse_variant_block(Unwrap(args).block, Unwrap(args).n_samples,
                                             Unwrap(args).indices_to_keep))
    /\ DecodeUnchanged

NextDecode == PackedDecode \/ TransposedDecode \/ PlinkDecode

SpecDecode == InitDecode /\ [][NextDecode]_vars

(***************************************************************************)
(* Parallel accumulation over a decoder's stream: the pool's threads pull  *)
(* the decoder's items through the bridge, one at a time; the closure of   *)
(* try_for_each runs once the lock is released, and a closure that returns *)
(* Err stops the threads that have not pulled yet.                         *)
(***************************************************************************)
\* The calls the matrix holds for variant v, for n samples.
StreamSite(v, n) == [k \in 1 .. n |-> (v + k) % 4]

\* The decoders an accumulation pass can be handed.
StreamReaders ==
    UNION { UNION { { Opened(kind, n_variants, filter, readable, lines) :
                        readable \in (IF kind \in {"packed", "plink"}
                                      THEN 0 .. n_variants ELSE {n_variants}),
                        lines \in (IF kind = "unpacked"
                                   THEN LinesUpTo(n_variants) ELSE {<< >>}),
                        filter \in (IF kind = "packed" THEN {None}
                                    ELSE {None} \cup
                                         { Some(K) : K \in SUBSET (0 .. n_variants - 1) }) }
                    : n_variants \in 1 .. MaxVariants }
            : kind \in DecoderKinds }

InitParStream ==
    /\ NothingWritten
    /\ \E sample_list \in SampleLists : New(sample_list, None)
    /\ sites = << >>
    /\ pulled = 0
    /\ result = "running"
    /\ rates = None
    /\ atomic_mismatches = Zeros(n_samples)
    /\ atomic_totals = Zeros(n_samples)
    /\ \E size \in 1 .. NWorkers : workers = [w \in 1 .. size |-> IdleWorker]
    /\ stream_done = FALSE
    /\ seq_counts = Some([m |-> Zeros(n_samples), t |-> Zeros(n_samples)])
    /\ yielded = << >>
    /\ rd \in StreamReaders
    /\ CallIdle

\* A closure has returned Err: try_for_each is full.
Full == \E w \in Pool : workers[w].pc = "failed"

\* Worker w takes the bridge's lock and calls the decoder's next().
ParStreamPull(w) ==
    /\ result = "running"
    /\ workers[w].pc = "idle"
    /\ ~stream_done
    /\ ~Full
    /\ LET nx == DecoderNext(rd)
           site == StreamSite(nx.item.variant, n_samples)
           todo == WorkerTodo(n_samples, indices_to_count, site)
       IN  /\ rd' = nx.rd
           /\ yielded' = Append(yielded, nx.item)
           /\ IF nx.item.kind = "site"
              THEN /\ workers' = [workers EXCEPT ![w] =
                                     IF todo = << >> THEN IdleWorker
                                     ELSE [pc |-> "add_mismatch", todo |-> todo]]
                   /\ pulled' = pulled + 1
                   /\ seq_counts' = Some(AccumulateSite(n_samples, indices_to_count,
                                                        Unwrap(seq_counts), site))
                   /\ UNCHANGED stream_done
              ELSE IF nx.item.kind = "err"
              THEN /\ workers' = [workers EXCEPT ![w].pc = "erring"]
                   /\ UNCHANGED <<pulled, seq_counts, stream_done>>
              ELSE /\ workers' = [workers EXCEPT ![w].pc = "done"]
                   /\ stream_done' = TRUE
                   /\ UNCHANGED <<pulled, seq_counts>>
    /\ UNCHANGED <<newVars, mismatches, totals, sites, result, rates,
                   atomic_mismatches, atomic_totals, callVars, runVars>>

\* `let site = site?;` returns the error from w's closure.
ParStreamFail(w) ==
    /\ workers[w].pc = "erring"
    /\ workers' = [workers EXCEPT ![w].pc = "failed"]
    /\ UNCHANGED <<newVars, mismatches, totals, sites, pulled, result, rates,
                   atomic_mismatches, atomic_totals, stream_done, seq_counts,
                   readerVars, callVars, runVars>>

\* Worker w finds the bridge exhausted or try_for_each full, and leaves.
ParStreamLeave(w) ==
    /\ result = "running"
    /\ workers[w].pc = "idle"
    /\ stream_done \/ Full
    /\ workers' = [workers EXCEPT ![w].pc = "done"]
    /\ UNCHANGED <<newVars, mismatches, totals, sites, pulled, result, rates,
                   atomic_mismatches, atomic_totals, stream_done, seq_counts,
                   readerVars, callVars, runVars>>

\* try_for_each has returned: with Err, `?` returns it and self is dropped;
\* with Ok the cells are loaded into self.
ParStreamJoin ==
    /\ ~Sequential
    /\ result = "running"
    /\ \A w \in Pool : workers[w].pc \in {"done", "failed"}
    /\ IF Full
       THEN /\ result' = "err"
            /\ UNCHANGED <<mismatches, totals>>
       ELSE /\ mismatches' = atomic_mismatches
            /\ totals' = atomic_totals
            /\ result' = "ok"
    /\ UNCHANGED <<newVars, sites, pulled, rates, parVars, readerVars, callVars, runVars>>

NextParStream ==
    \/ \E w \in Pool : ParStreamPull(w)
    \/ \E w \in Pool : ParStreamFail(w)
    \/ \E w \in Pool : ParStreamLeave(w)
    \/ \E w \in Pool : ParAddMismatch(w)
    \/ \E w \in Pool : ParAddTotal(w)
    \/ ParStreamJoin

SpecParStream == InitParStream /\ [][NextParStream]_vars

(***************************************************************************)
(* cli.rs: run.  The coverage pass over a first decoder, the pair mask,    *)
(* Counts::new, the accumulation pass over a second decoder of the same    *)
(* files, then the outputs.  Before the accumulation starts result is      *)
(* "none"; samples holds run's sample list from the first open on.         *)
(***************************************************************************)
\* `const PARALLEL_THRESHOLD: usize = 500;`
PARALLEL_THRESHOLD == 500

\* A plausible slip: a run of exactly the threshold's size is still sequential.
sequential_mode_up_to_threshold(threads, n) ==
    (threads = None /\ n <= PARALLEL_THRESHOLD) \/ threads = Some(1)

\* (threads.is_none() && counts.n_samples() < PARALLEL_THRESHOLD) || threads == Some(1)
sequential_mode(threads, n) ==
    (threads = None /\ n < PARALLEL_THRESHOLD) \/ threads = Some(1)

\* The accumulation run picks.
accumulation_mode(threads, n) ==
    IF sequential_mode(threads, n) THEN "consume_reader" ELSE "consume_reader_parallel"

\* The threads of the pool the parallel pass runs on: num_threads(n), or the
\* global pool.
pool_size(threads) ==
    IF threads # None /\ Unwrap(threads) > 0 THEN Unwrap(threads) ELSE NWorkers

\* count_covered_snps over the items the coverage pass pulled.
count_covered_snps(items, n) ==
    [i \in 1 .. n |->
        Cardinality({ k \in 1 .. Len(items) :
                        /\ items[k].kind = "site"
                        /\ StreamSite(items[k].variant, n)[i] # Missing })]

RunOk == [ok |-> TRUE, error |-> ""]
RunErr(e) == [ok |-> FALSE, error |-> e]

\* The files run writes, in order.
RunOutputs(npz) ==
    IF npz THEN <<"mismatch_counts.npz", "mismatch_rates.png">>
    ELSE <<"covered_snps.csv", "mismatch_rates.csv", "mismatch_rates.png">>

\* A plausible slip: the outputs are written whatever the accumulation returned.
may_write_after_error(res) == res \in {"ok", "err"}

\* The `?` after consume_reader / consume_reader_parallel: the writes are
\* reached with Ok only.
may_write(res) == res = "ok"

\* The datasets and options of the runs.
RunInputs ==
    UNION { UNION {
        [op : {"run"}, kind : {kind}, ind : {<<"A", "B">>}, n_snp : {n_snp},
         header : { h \in Headers(kind, 2, n_snp) : h.n_samples = 2 /\ h.n_variants = n_snp },
         blocks : IF kind = "unpacked" THEN {0} ELSE 0 .. MaxSites,
         lines : IF kind = "unpacked" THEN LinesUpTo(n_snp) ELSE {<< >>},
         samples_to_keep : {None, Some({"B", "Z"})},
         variant_indices : {None, Some({0})},
         sample_pairs : {None, Some(<< <<"B", "A">> >>), Some(<< <<"A", "Z">> >>)},
         min_covered_snps : 0 .. 1,
         threads : {None, Some(1), Some(2)},
         npz : BOOLEAN]
        : n_snp \in 1 .. MaxSites } : kind \in DecoderKinds }

\* The matrix file as the second open_reader finds it: the file is read again
\* from the start, and nothing keeps it, or the reads on it, as they were
\* during the coverage pass.
MatrixNow(a) ==
    [blocks : IF a.kind = "unpacked" THEN {0} ELSE 0 .. MaxSites,
     lines : IF a.kind = "unpacked" THEN LinesUpTo(a.n_snp) ELSE {<< >>}]

IsRun == args # None /\ Unwrap(args).op = "run"

InitRun ==
    /\ NothingWritten
    /\ EngineIdle
    /\ ParIdle
    /\ ReaderIdle
    /\ ret = None
    /\ \E a \in RunInputs : args = Some(a)

\* let mut coverage_reader = input_spec.open_reader()?; let samples = ..
RunOpen ==
    /\ IsRun
    /\ ret = None
    /\ rd = NoReader
    /\ result = "none"
    /\ \E bad \in 0 .. MaxVariants : \E missing \in SampleIds :
          LET r == open_reader(Unwrap(args), bad, missing)
          IN  IF r.ok
              THEN /\ rd' = r.rd
                   /\ samples' = r.samples
                   /\ UNCHANGED ret
              ELSE /\ ret' = Some(RunErr(r.error))
                   /\ UNCHANGED <<rd, samples>>
    /\ UNCHANGED <<indices_to_count, pairs_given, mismatches, totals, sites, pulled,
                   result, rates, parVars, yielded, args, runVars>>

\* One iteration of count_covered_snps; after the last one,
\* build_pair_indices_to_count, Counts::new, the second open_reader and the
\* choice of the accumulation.
RunCoveragePull ==
    /\ IsRun
    /\ ret = None
    /\ rd # NoReader
    /\ result = "none"
    /\ LET a == Unwrap(args)
           nx == DecoderNext(rd)
           n == Len(samples)
           covered_snps == count_covered_snps(yielded, n)
       IN  IF nx.item.kind = "site"
           THEN /\ rd' = nx.rd
                /\ yielded' = Append(yielded, nx.item)
                /\ UNCHANGED <<indices_to_count, pairs_given, mismatches, totals, result,
                               parVars, ret>>
           ELSE IF nx.item.kind = "err"
           THEN /\ rd' = nx.rd
                /\ yielded' = Append(yielded, nx.item)
                /\ ret' = Some(RunErr(nx.item.error))
                /\ UNCHANGED <<indices_to_count, pairs_given, mismatches, totals, result,
                               parVars>>
           ELSE \E allowed_indices \in
                      IterationOrders(Allowed(covered_snps, a.min_covered_snps)) :
                \E bad \in 0 .. MaxVariants : \E missing \in SampleIds :
                \E matrix \in MatrixNow(a) :
                   LET b == build_pair_indices_to_count(samples, a.sample_pairs,
                                covered_snps, a.min_covered_snps, allowed_indices)
                       r == open_reader([a EXCEPT !.blocks = matrix.blocks,
                                                  !.lines = matrix.lines],
                                        bad, missing)
                   IN  IF ~b.ok
                       THEN /\ ret' = Some(RunErr(b.error))
                            /\ rd' = nx.rd
                            /\ yielded' = Append(yielded, nx.item)
                            /\ UNCHANGED <<indices_to_count, pairs_given, mismatches,
                                           totals, result, parVars>>
                       ELSE IF ~r.ok
                       THEN /\ ret' = Some(RunErr(r.error))
                            /\ rd' = nx.rd
                            /\ yielded' = Append(yielded, nx.item)
                            /\ UNCHANGED <<indices_to_count, pairs_given, mismatches,
                                           totals, result, parVars>>
                       ELSE /\ pairs_given' = b.value
                            /\ indices_to_count' = new_mask(n, b.value)
                            /\ mismatches' = Zeros(n)
                            /\ totals' = Zeros(n)
                            /\ rd' = r.rd
                            /\ yielded' = << >>
                            /\ result' = "running"
                            /\ IF sequential_mode(a.threads, n)
                               THEN UNCHANGED parVars
                               ELSE /\ atomic_mismatches' = Zeros(n)
                                    /\ atomic_totals' = Zeros(n)
                                    /\ workers' = [w \in 1 .. pool_size(a.threads) |->
                                                      IdleWorker]
                                    /\ seq_counts' = Some([m |-> Zeros(n), t |-> Zeros(n)])
                                    /\ UNCHANGED stream_done
                            /\ UNCHANGED ret
    /\ UNCHANGED <<samples, sites, pulled, rates, args, runVars>>

\* One iteration of consume_reader's loop over the second decoder.
RunConsume ==
    /\ IsRun
    /\ Sequential
    /\ result = "running"
    /\ LET nx == DecoderNext(rd)
           site == StreamSite(nx.item.variant, n_samples)
           c == AccumulateSite(n_samples, indices_to_count,
                               [m |-> mismatches, t |-> totals], site)
       IN  /\ rd' = nx.rd
           /\ yielded' = Append(yielded, nx.item)
           /\ IF nx.item.kind = "site"
              THEN /\ mismatches' = c.m
                   /\ totals' = c.t
                   /\ sites' = Append(sites, site)
                   /\ pulled' = pulled + 1
                   /\ UNCHANGED result
              ELSE /\ result' = IF nx.item.kind = "err" THEN "err" ELSE "ok"
                   /\ UNCHANGED <<mismatches, totals, sites, pulled>>
    /\ UNCHANGED <<newVars, rates, parVars, callVars, runVars>>

\* The `?` of run on an accumulation that returned Err: run returns the error.
RunReturnErr ==
    /\ IsRun
    /\ ret = None
    /\ result = "err"
    /\ \E k \in 1 .. Len(yielded) :
          /\ yielded[k].kind = "err"
          /\ Sequential => k = Len(yielded)
          /\ ret' = Some(RunErr(yielded[k].error))
    /\ UNCHANGED <<newVars, mismatches, totals, sites, pulled, result, rates, parVars,
                   readerVars, args, runVars>>

\* The next write of run; a write that fails returns its error and may leave
\* the file behind.  The plot is the last one.
RunWrite ==
    /\ IsRun
    /\ ret = None
    /\ may_write(result)
    /\ LET todo == RunOutputs(Unwrap(args).npz)
           file == todo[Cardinality(outputs) + 1]
       IN  \/ /\ outputs' = outputs \cup {file}
              /\ rates' = IF file = "mismatch_rates.csv" THEN Some(ReportRows) ELSE rates
              /\ ret' = IF Cardinality(outputs) + 1 = Len(todo) THEN Some(RunOk) ELSE ret
           \/ /\ outputs' \in {outputs, outputs \cup {file}}
              /\ ret' = Some(RunErr("Write"))
              /\ UNCHANGED rates
    /\ UNCHANGED <<newVars, mismatches, totals, sites, pulled, result, parVars,
                   readerVars, args>>

NextRun ==
    \/ RunOpen
    \/ RunCoveragePull
    \/ RunConsume
    \/ \E w \in Pool : ParStreamPull(w)
    \/ \E w \in Pool : ParStreamFail(w)
    \/ \E w \in Pool : ParStreamLeave(w)
    \/ \E w \in Pool : ParAddMismatch(w)
    \/ \E w \in Pool : ParAddTotal(w)
    \/ ParStreamJoin
    \/ RunReturnErr
    \/ RunWrite

SpecRun == InitRun /\ [][NextRun]_vars

(***************************************************************************)
(* run's choice of the accumulation, on its own: the sample counts around  *)
(* the threshold cannot be reached with the sample lists of SpecRun.       *)
(***************************************************************************)
ModeInputs ==
    [op : {"accumulation_mode"},
     threads : {None} \cup { Some(t) : t \in 0 .. MaxThreads },
     n_samples : 2 .. PARALLEL_THRESHOLD + MaxOverThreshold]

InitMode ==
    /\ NothingWritten
    /\ EngineIdle
    /\ ParIdle
    /\ ReaderIdle
    /\ ret = None
    /\ \E a \in ModeInputs : args = Some(a)

\* run: `if (threads.is_none() && ..) || threads == Some(1) { .. } else ..`
ChooseMode ==
    /\ args # None
    /\ Unwrap(args).op = "accumulation_mode"
    /\ ret = None
    /\ ret' = Some(accumulation_mode(Unwrap(args).threads, Unwrap(args).n_samples))
    /\ UNCHANGED <<newVars, mismatches, totals, sites, pulled, result, rates, parVars,
                   readerVars, args, runVars>>

NextMode == ChooseMode

SpecMode == InitMode /\ [][NextMode]_vars

(***************************************************************************)
(* Construction over every sample sidecar of up to MaxFileSamples lines,   *)
(* the matrix and the variant sidecar being well formed, of one variant.   *)
(***************************************************************************)
SidecarInputs ==
    UNION { UNION {
        [op : {"open"}, kind : {kind}, ind : {ind}, n_snp : {1},
         header : {[ok |-> TRUE, n_samples |-> Len(ind), n_variants |-> 1]},
         blocks : {IF kind = "transposed" THEN Len(ind)
                   ELSE IF kind = "unpacked" THEN 0 ELSE 1},
         lines : {IF kind = "unpacked" THEN <<"ok">> ELSE << >>},
         samples_to_keep : SampleFilters,
         variant_indices : {None}]
        : ind \in FileSampleLists } : kind \in DecoderKinds }

InitSidecar ==
    /\ NothingWritten
    /\ EngineIdle
    /\ ParIdle
    /\ ReaderIdle
    /\ ret = None
    /\ \E a \in SidecarInputs : args = Some(a)

SpecSidecar == InitSidecar /\ [][NextOpen]_vars

(***************************************************************************)
(* One Site, from the sample sidecar to the genotypes: the sample          *)
(* selection of open, then the decoding of one variant of the matrix.      *)
(* A matrix line of the Unpacked-Text format is a sequence of characters.  *)
(***************************************************************************)
\* The match of parse_variant_row; any other character is unreachable!().
IsCall(c) == c \in {"0", "1", "2", "9"}
DigitAllele(c) ==
    CASE c = "0" -> Alt
      [] c = "1" -> Het
      [] c = "2" -> Ref
      [] c = "9" -> Missing

\* `indices.contains(&idx)`, or true without a sample filter.
KeepsPosition(indices_to_keep, pos) ==
    indices_to_keep = None
        \/ \E k \in 1 .. Len(Unwrap(indices_to_keep)) : Unwrap(indices_to_keep)[k] = pos

\* The 0-based positions of the line that parse_variant_row decodes, in order.
RECURSIVE KeptPositions(_, _, _)
KeptPositions(len, indices_to_keep, pos) ==
    IF pos >= len THEN << >>
    ELSE (IF KeepsPosition(indices_to_keep, pos) THEN <<pos>> ELSE << >>)
             \o KeptPositions(len, indices_to_keep, pos + 1)

\* A plausible slip: the row is decoded without the sample filter.
parse_variant_row_unfiltered(cleaned_line, n, indices_to_keep) ==
    [panic |-> \E k \in 1 .. Len(cleaned_line) : ~IsCall(cleaned_line[k]),
     genotypes |-> [k \in 1 .. Len(cleaned_line) |->
                       IF IsCall(cleaned_line[k]) THEN DigitAllele(cleaned_line[k])
                       ELSE Missing]]

\* parse_variant_row(cleaned_line, n_samples, indices_to_keep): the genotypes,
\* or the panic of unreachable!() at a kept position.
parse_variant_row(cleaned_line, n, indices_to_keep) ==
    LET kept == KeptPositions(Len(cleaned_line), indices_to_keep, 0)
    IN  [panic |-> \E k \in 1 .. Len(kept) : ~IsCall(cleaned_line[kept[k] + 1]),
         genotypes |-> [k \in 1 .. Len(kept) |->
                           IF IsCall(cleaned_line[kept[k] + 1])
                           THEN DigitAllele(cleaned_line[kept[k] + 1])
                           ELSE Missing]]

SiteOf(g) == [outcome |-> "site", genotypes |-> g, error |-> "", n_fields |-> 0, expected |-> 0]
SitePanic == [outcome |-> "panic", genotypes |-> << >>, error |-> "", n_fields |-> 0, expected |-> 0]
SiteErr(e, n_fields, expected) ==
    [outcome |-> "err", genotypes |-> << >>, error |-> e, n_fields |-> n_fields,
     expected |-> expected]

\* EigenstratReader::next on a kept line it has read: the line without its
\* whitespace, the length test, parse_variant_row.
unpacked_row(line, n, indices_to_keep) ==
    LET cleaned_line == SelectSeq(line, LAMBDA c : c # " ")
    IN  IF Len(cleaned_line) # n
        THEN SiteErr("EigenstratGenoFields", Len(cleaned_line), n)
        ELSE LET g == parse_variant_row(cleaned_line, n, indices_to_keep)
             IN  IF g.panic THEN SitePanic ELSE SiteOf(g.genotypes)

\* The characters of the matrix lines: the four calls, a character that is
\* none of them, a blank.
RowChars == {"0", "1", "2", "9", "3", " "}

\* The sample sidecars and the sample filters of the Sites.
SiteLists == { <<"A", "B">>, <<"A", "B", "C">>, <<"A", "B", "A">>, <<"B", "A", "C">> }
SiteFilters == {None, Some({"A"}), Some({"B", "C"}), Some({"A", "C"}), Some({"C", "Z"})}

\* The variant's part of the matrix: a line of as many characters as there
\* are samples or one more, a variant block, or one block per sample.
SiteData(kind, n) ==
    IF kind = "unpacked" THEN UNION { [1 .. len -> RowChars] : len \in n .. n + 1 }
    ELSE IF kind = "transposed" THEN Matrices(n)
    ELSE DecodeBlocks(PatternBytes)

SiteInputs ==
    UNION { UNION {
        [op : {"site"}, kind : {kind}, ind : {ind}, samples_to_keep : SiteFilters,
         data : SiteData(kind, Len(ind)), variant_idx : 0 .. 1]
        : ind \in SiteLists } : kind \in DecoderKinds }

InitSite ==
    /\ NothingWritten
    /\ EngineIdle
    /\ ParIdle
    /\ ReaderIdle
    /\ ret = None
    /\ \E a \in SiteInputs : args = Some(a)

\* The sample selection of open: PlinkBedReader and EigenstratReader call
\* select_samples, the other two take no sample filter.
OpenSamples(a, missing) ==
    IF a.kind \in {"plink", "unpacked"} THEN select_samples(a.ind, a.samples_to_keep, missing)
    ELSE select_samples(a.ind, None, missing)

\* The genotypes next() decodes for the variant.
DecodeVariant(a, indices_to_keep) ==
    IF a.kind = "packed" THEN SiteOf(packed_parse_variant_block(a.data, Len(a.ind)))
    ELSE IF a.kind = "transposed"
    THEN SiteOf(genotypes_for_variant(a.data, Len(a.ind), BlockBytes, a.variant_idx))
    ELSE IF a.kind = "plink"
    THEN SiteOf(plink_parse_variant_block(a.data, Len(a.ind), indices_to_keep))
    ELSE unpacked_row(a.data, Len(a.ind), indices_to_keep)

\* open, then the pull of the variant.
PullSite ==
    /\ args # None
    /\ Unwrap(args).op = "site"
    /\ ret = None
    /\ \E missing \in SampleIds :
          LET a == Unwrap(args)
              sel == OpenSamples(a, missing)
          IN  ret' = Some(IF ~sel.ok
                          THEN [opened |-> FALSE, samples |-> << >>, indices |-> None,
                                item |-> SiteErr("SamplePairUnknownSample", 0, 0)]
                          ELSE [opened |-> TRUE, samples |-> sel.samples,
                                indices |-> sel.indices,
                                item |-> DecodeVariant(a, sel.indices)])
    /\ UNCHANGED <<newVars, mismatches, totals, sites, pulled, result, rates, parVars,
                   readerVars, args, runVars>>

NextSite == PullSite

SpecSite == InitSite /\ [][NextSite]_vars

(***************************************************************************)
(* The header block of a Packed-Matrix or Transposed matrix file: open     *)
(* takes the bytes fill_buf returns (the whole file, for the file sizes    *)
(* here) and slices the header block off them.                             *)
(***************************************************************************)
MIN_BLOCK_BYTES == 48
HEADER_BLOCK_SIZE == 48

\* n.div_ceil(4)
div_ceil_4(n) == (n + 3) \div 4

\* packedancestrymap.rs: MIN_BLOCK_BYTES.max(samples.len().div_ceil(4));
\* transposed_packedancestrymap.rs slices HEADER_BLOCK_SIZE bytes.
header_slice_len(kind, n_ind) ==
    IF kind = "packed"
    THEN (IF div_ceil_4(n_ind) > MIN_BLOCK_BYTES THEN div_ceil_4(n_ind) ELSE MIN_BLOCK_BYTES)
    ELSE HEADER_BLOCK_SIZE

\* `&buffer[..block_size]`: the slice, or the panic of an index past the end.
header_block(buffer_len, slice_len) ==
    IF buffer_len < slice_len
    THEN [panic |-> TRUE, len |-> 0]
    ELSE [panic |-> FALSE, len |-> slice_len]

\* The start of open up to parse_header_block.
read_header_block(kind, n_ind, buffer_len) ==
    LET hb == header_block(buffer_len, header_slice_len(kind, n_ind))
    IN  IF hb.panic THEN "panic"
        ELSE IF hb.len < MIN_BLOCK_BYTES THEN "PackedAncestryMapFileSize"
        ELSE "parse_header_block"

\* The sample counts of the sidecar: blocks of the least size, and a block
\* above it.
HeaderSampleCounts == {2, 3, 4 * MIN_BLOCK_BYTES + 1}

HeaderInputs ==
    [op : {"read_header_block"}, kind : {"packed", "transposed"},
     n_ind : HeaderSampleCounts, file_len : 0 .. MIN_BLOCK_BYTES + MaxExtraBytes]

InitHeader ==
    /\ NothingWritten
    /\ EngineIdle
    /\ ParIdle
    /\ ReaderIdle
    /\ ret = None
    /\ \E a \in HeaderInputs : args = Some(a)

\* open: fill_buf, the header slice, the size test.
ReadHeaderBlock ==
    /\ args # None
    /\ Unwrap(args).op = "read_header_block"
    /\ ret = None
    /\ ret' = Some(read_header_block(Unwrap(args).kind, Unwrap(args).n_ind,
                                     Unwrap(args).file_len))
    /\ UNCHANGED <<newVars, mismatches, totals, sites, pulled, result, rates, parVars,
                   readerVars, args, runVars>>

NextHeader == ReadHeaderBlock

SpecHeader == InitHeader /\ [][NextHeader]_vars

(***************************************************************************)
(* Properties of the sequential accumulation (Spec).                       *)
(***************************************************************************)
SampleIdx == 0 .. n_samples - 1

\* The unordered pair {i, j} is admitted by the argument of Counts::new.
Admitted(i, j) ==
    \/ pairs_given = None
    \/ <<i, j>> \in Unwrap(pairs_given)
    \/ <<j, i>> \in Unwrap(pairs_given)

\* The positions of the pulled Sites at which both i and j are called.
Comparable(i, j) ==
    { k \in 1 .. Len(sites) : sites[k][i + 1] # Missing /\ sites[k][j + 1] # Missing }

RECURSIVE SumOver(_, _, _)
SumOver(ks, i, j) ==
    IF ks = {} THEN 0
    ELSE LET k == CHOOSE x \in ks : TRUE
         IN  mismatch(sites[k][i + 1], sites[k][j + 1]) + SumOver(ks \ {k}, i, j)

\* C2: once an error-free stream is drained, the cell of every admitted pair
\* i < j holds twice the number of Sites at which both samples are called, and
\* the sum of their mismatches over exactly those Sites.
C2_CellsCountComparableSites ==
    result = "ok" =>
        \A i \in SampleIdx : \A j \in SampleIdx :
            (i < j /\ Admitted(i, j)) =>
                /\ totals[idx(i, j)] = 2 * Cardinality(Comparable(i, j))
                /\ totals[idx(i, j)] % 2 = 0
                /\ site_overlaps[idx(i, j)] = Cardinality(Comparable(i, j))
                /\ mismatches[idx(i, j)] = SumOver(Comparable(i, j), i, j)

\* A drained two-Site stream: both samples of an admitted pair are called at one
\* Site and differ there, and one of them is Missing at the other Site.
C2_Witness ==
    /\ result = "ok"
    /\ Len(sites) = 2
    /\ \E i \in SampleIdx : \E j \in SampleIdx :
          /\ i < j
          /\ Admitted(i, j)
          /\ Cardinality(Comparable(i, j)) = 1
          /\ \E k \in 1 .. 2 : sites[k][i + 1] = Missing /\ sites[k][j + 1] # Missing
          /\ mismatches[idx(i, j)] = 2

\* The pairs of calls, both non-missing, of the Sites pulled so far.
CalledPairs ==
    { <<sites[k][i + 1], sites[k][j + 1]>> :
        <<k, i, j>> \in { t \in (1 .. Len(sites)) \X SampleIdx \X SampleIdx :
                            /\ t[2] # t[3]
                            /\ sites[t[1]][t[2] + 1] # Missing
                            /\ sites[t[1]][t[3] + 1] # Missing } }

\* C3 as stated: the mismatch of two non-missing calls is the distance of
\* their codes, so that mismatch(x, x) = 0 for every non-missing x.
C3_MismatchIsCodeDistance ==
    \A p \in CalledPairs :
        /\ mismatch(p[1], p[2]) = Abs(p[1] - p[2])
        /\ mismatch(p[1], p[1]) = 0

\* C3 amended: the mismatch of two non-missing calls is the distance of their
\* codes except that two Heterozygous calls mismatch by 1; it is symmetric,
\* and mismatch(x, x) = 0 for the homozygous x.
C3_MismatchTable ==
    \A p \in CalledPairs :
        /\ mismatch(p[1], p[2]) =
              IF p[1] = Het /\ p[2] = Het THEN 1 ELSE Abs(p[1] - p[2])
        /\ mismatch(p[1], p[2]) = mismatch(p[2], p[1])
        /\ p[1] \in {Ref, Alt} => mismatch(p[1], p[1]) = 0

\* A Site with two Heterozygous calls and a Reference beside an Alternate
\* has been accumulated.
C3_Witness ==
    /\ <<Het, Het>> \in CalledPairs
    /\ <<Ref, Alt>> \in CalledPairs
    /\ \E c \in Cells(n_samples) : mismatches[c] = 1 /\ totals[c] = 2

\* The cells n*i+j, i < j, of the admitted pairs.
AdmittedCells ==
    { n_samples * i + j : <<i, j>> \in
        { p \in SampleIdx \X SampleIdx : p[1] < p[2] /\ Admitted(p[1], p[2]) } }

\* C6: every cell that is not n*i+j of an admitted pair i < j (the diagonal,
\* the mirror half, the pairs not admitted) is zero in both arrays; and
\* should_count_pair is symmetric, false on i = j, true exactly for the
\* admitted pairs, so for every i # j when no mask was given.
C6_OnlyAdmittedCellsChange ==
    /\ \A c \in Cells(n_samples) \ AdmittedCells : mismatches[c] = 0 /\ totals[c] = 0
    /\ \A i \in SampleIdx : \A j \in SampleIdx :
          /\ should_count_pair(i, j) = should_count_pair(j, i)
          /\ i = j => ~should_count_pair(i, j)
          /\ i # j => (should_count_pair(i, j) <=> Admitted(i, j))
          /\ (i # j /\ pairs_given = None) => should_count_pair(i, j)

\* Three samples, one pair given in descending order: its cell has counted a
\* Site at which all three samples are called and differ, the others are zero.
C6_Witness ==
    /\ n_samples = 3
    /\ pairs_given # None
    /\ \E i \in SampleIdx : \E j \in SampleIdx :
          /\ i < j
          /\ Unwrap(pairs_given) = { <<j, i>> }
          /\ totals[idx(i, j)] = 2
          /\ mismatches[idx(i, j)] > 0
    /\ \E k \in 1 .. Len(sites) :
          \A i \in SampleIdx : \A j \in SampleIdx :
              sites[k][i + 1] # Missing /\ (i # j => sites[k][i + 1] # sites[k][j + 1])

Min(a, b) == IF a < b THEN a ELSE b
Max(a, b) == IF a < b THEN b ELSE a

\* C7: idx(i, j) = idx(j, i) = n*min(i,j)+max(i,j) for i # j, and the three
\* full-matrix accessors return the value of that cell at (i, j) and at (j, i),
\* and zero on the diagonal.
C7_SymmetricAddressing ==
    LET m2 == mismatches_2d
        t2 == totals_2d
        o2 == site_overlaps_2d
    IN  \A i \in SampleIdx : \A j \in SampleIdx :
            /\ i # j =>
                  /\ idx(i, j) = idx(j, i)
                  /\ idx(i, j) = n_samples * Min(i, j) + Max(i, j)
                  /\ m2[i][j] = m2[j][i]
                  /\ t2[i][j] = t2[j][i]
                  /\ o2[i][j] = o2[j][i]
                  /\ m2[i][j] = mismatches[n_samples * Min(i, j) + Max(i, j)]
                  /\ t2[i][j] = totals[n_samples * Min(i, j) + Max(i, j)]
                  /\ o2[i][j] = totals[n_samples * Min(i, j) + Max(i, j)] \div 2
            /\ i = j => m2[i][i] = 0 /\ t2[i][i] = 0 /\ o2[i][i] = 0

\* After a drained stream the matrices carry two pairs with different counts.
C7_Witness ==
    /\ result = "ok"
    /\ n_samples = 3
    /\ mismatches_2d[2][0] = 3
    /\ totals_2d[2][0] = 4
    /\ totals_2d[1][0] = 2
    /\ site_overlaps_2d[2][1] = 1

\* C8: for every pair i < j, mismatch_rates (and the row written for the
\* pair) gives not-a-number exactly when the pair's totals cell is 0, and the
\* quotient mismatches/totals otherwise.
C8_RateUndefinedIffNoOverlap ==
    LET mr == mismatch_rates
    IN  \A i \in SampleIdx : \A j \in SampleIdx :
            i < j =>
                LET c == idx(i, j)
                    r == mr[c]
                IN  /\ r.rate = NaN <=> totals[c] = 0
                    /\ totals[c] # 0 => r.rate = Quot(mismatches[c], totals[c])
                    /\ totals[c] = 0 => r.rate # Quot(0, 1)
                    /\ r.pair = <<samples[i + 1], samples[j + 1]>>
                    /\ rates # None =>
                          \E k \in 1 .. Len(Unwrap(rates)) :
                              /\ Unwrap(rates)[k].id1 = samples[i + 1]
                              /\ Unwrap(rates)[k].id2 = samples[j + 1]
                              /\ Unwrap(rates)[k].mismatch_rate = r.rate
                              /\ Unwrap(rates)[k].n_overlap = totals[c] \div 2

\* The written rows hold a pair without overlap beside a pair with a rate of
\* 0 and a pair with the rate 1/2.
C8_Witness ==
    /\ rates # None
    /\ \E k \in 1 .. Len(Unwrap(rates)) : Unwrap(rates)[k].mismatch_rate = NaN
    /\ \E k \in 1 .. Len(Unwrap(rates)) : Unwrap(rates)[k].mismatch_rate = Quot(0, 2)
    /\ \E k \in 1 .. Len(Unwrap(rates)) : Unwrap(rates)[k].mismatch_rate = Quot(1, 2)

(***************************************************************************)
(* Properties of the end-to-end scenario (SpecScenario).                   *)
(***************************************************************************)
\* C4: each [Ref,Alt,Alt,Alt] Site adds 2 mismatches to the pairs with sample
\* 0 and none to the others, each all-Heterozygous Site adds 1 to every pair,
\* the all-Alternate Site adds none, and the Site with sample 0 Missing counts
\* for the pairs without sample 0 only; so at the end overlap(0,1) = 30001 and
\* mismatches(0,1) = 14999*2 + 15001*1, and the pairs without sample 0 have
\* overlap 30002 and mismatches 15001.
C4_ScenarioCounts ==
    LET high == Min(pulled, HIGH_MISMATCH_VARIANTS)
        het == Min(Max(pulled - HIGH_MISMATCH_VARIANTS, 0),
                   CORE_VARIANTS - HIGH_MISMATCH_VARIANTS)
        same == Min(Max(pulled - CORE_VARIANTS, 0), EXTRA_IDENTICAL_VARIANTS)
        miss == Min(Max(pulled - CORE_VARIANTS - EXTRA_IDENTICAL_VARIANTS, 0),
                    EXTRA_MISSING_VARIANTS)
    IN  /\ \A i \in SampleIdx : \A j \in SampleIdx :
              i < j =>
                  IF i = 0
                  THEN /\ mismatches[idx(i, j)] = 2 * high + 1 * het + 0 * same
                       /\ site_overlaps[idx(i, j)] = high + het + same
                  ELSE /\ mismatches[idx(i, j)] = 0 * high + 1 * het + 0 * same + 0 * miss
                       /\ site_overlaps[idx(i, j)] = high + het + same + miss
        /\ result = "ok" =>
              /\ site_overlaps[idx(0, 1)] = 30001
              /\ mismatches[idx(0, 1)] = 14999 * 2 + 15001 * 1
              /\ \A i \in 1 .. 3 : \A j \in 1 .. 3 :
                    i < j => /\ site_overlaps[idx(i, j)] = 30002
                             /\ mismatches[idx(i, j)] = 15001

\* The whole dataset has been accumulated and the rows written.
C4_Witness ==
    /\ result = "ok"
    /\ pulled = 30002
    /\ rates # None
    /\ Unwrap(rates)[1].n_overlap = 30001
    /\ Unwrap(rates)[1].mismatch_rate = Quot(44999, 60002)

(***************************************************************************)
(* Properties of the parallel accumulation (SpecPar, SpecBoth).            *)
(***************************************************************************)
\* C1: when consume_reader_parallel returns Ok, its mismatches and totals are
\* the arrays consume_reader computes on the Sites the workers pulled, for
\* every mask, pool size and interleaving of the pulls and the additions.
C1_ParallelEqualsSequential ==
    (~Sequential /\ result = "ok") =>
        /\ mismatches = Unwrap(seq_counts).m
        /\ totals = Unwrap(seq_counts).t

\* A pool of two has drained a two-Site stream whose Sites both count for
\* one cell, by different amounts.
C1_Witness ==
    /\ ~Sequential
    /\ result = "ok"
    /\ Cardinality(Pool) = 2
    /\ pulled = 2
    /\ \E c \in Cells(n_samples) : totals[c] = 4 /\ mismatches[c] = 3

\* The workers between their mismatches addition and their totals addition
\* for cell c.
Between(c) ==
    { w \in Pool : workers[w].pc = "add_total" /\ Head(workers[w].todo).cell = c }

\* C5 as stated: mismatches[cell] <= totals[cell] in every reachable state,
\* also between the workers' individual counter updates.
C5_MismatchesAtMostTotals ==
    \A c \in Cells(n_samples) :
        /\ mismatches[c] <= totals[c]
        /\ ~Sequential => atomic_mismatches[c] <= atomic_totals[c]

\* C5 amended: mismatches[cell] <= totals[cell] holds for the arrays of Counts
\* after any number of Sites, and for the shared cells whenever no worker is
\* between its two additions for the cell; in between, the mismatches cell
\* exceeds the totals cell by at most 2 for each such worker.
C5_MismatchesAtMostTotalsBetweenPairs ==
    \A c \in Cells(n_samples) :
        /\ mismatches[c] <= totals[c]
        /\ ~Sequential =>
              /\ atomic_mismatches[c] <= atomic_totals[c] + 2 * Cardinality(Between(c))
              /\ Between(c) = {} => atomic_mismatches[c] <= atomic_totals[c]

\* Two workers are both between their two additions for one cell, which holds
\* 4 mismatches and no totals yet.
C5_Witness ==
    /\ ~Sequential
    /\ \E c \in Cells(n_samples) :
          /\ Cardinality(Between(c)) = 2
          /\ atomic_mismatches[c] = 4
          /\ atomic_totals[c] = 0

(***************************************************************************)
(* Properties of the Site streams (SpecReader).                            *)
(***************************************************************************)
Pulls == 1 .. Len(yielded)

\* C9: once a pull has returned an error item, every later pull returns
\* end-of-stream, and never another Site or error.
C9_ErrorPoisonsStream ==
    \A k \in Pulls :
        yielded[k].kind = "err" => \A m \in Pulls : m > k => yielded[m].kind = "none"

NoErrorYielded == \A k \in Pulls : yielded[k].kind # "err"

\* The on-disk indices the decoder was opened to keep.
KeptVariants ==
    IF rd.variant_indices_to_keep = None THEN 0 .. rd.n_variants - 1
    ELSE Unwrap(rd.variant_indices_to_keep)

SitePulls == { k \in Pulls : yielded[k].kind = "site" }

StructuralError(item) ==
    /\ item.kind = "err"
    /\ \/ item.error \in {"EigenstratGenoFields", "EigenstratGenoVariantCount"}
       \/ /\ item.error = "ReadWithoutPath"
          /\ rd.kind \in {"packed", "plink"}
          /\ item.variant >= Unwrap(args).blocks

\* C11: a stream that has yielded a Site never afterwards yields a structural
\* or size error: such defects are all found at construction.
C11_DefectsFoundAtConstruction ==
    \A k \in Pulls : \A m \in Pulls :
        (k < m /\ yielded[k].kind = "site") => ~StructuralError(yielded[m])

\* The backing files have no defect that open looks for.
WellFormedFiles(a) ==
    /\ a.header.ok
    /\ Len(a.ind) >= 2
    /\ a.n_snp >= 1
    /\ a.header.n_samples = Len(a.ind)
    /\ a.header.n_variants = a.n_snp
    /\ a.kind \in {"packed", "plink"} => a.blocks = a.n_snp
    /\ a.kind = "transposed" => a.blocks = Len(a.ind)
    /\ a.samples_to_keep # None =>
          Unwrap(a.samples_to_keep) \subseteq { a.ind[i] : i \in 1 .. Len(a.ind) }

\* C12: constructing any decoder over well-formed files with a variant-keep
\* set that holds an index >= the variant count fails with VariantIndexHigh,
\* which names one of those indices plus one and the variant count; no Site
\* is yielded.
C12_HighVariantIndexRejected ==
    (/\ args # None
     /\ Unwrap(args).op = "open"
     /\ WellFormedFiles(Unwrap(args))
     /\ HighIndices(Unwrap(args).variant_indices, Unwrap(args).n_snp) # {}
     /\ ret # None)
    => /\ ~Unwrap(ret).ok
       /\ Unwrap(ret).error = "VariantIndexHigh"
       /\ Unwrap(ret).idx - 1 \in
              HighIndices(Unwrap(args).variant_indices, Unwrap(args).n_snp)
       /\ Unwrap(ret).n_variants = Unwrap(args).n_snp
       /\ yielded = << >>

(***************************************************************************)
(* Properties of parse_indices (SpecParse).                                *)
(***************************************************************************)
IsInt(s) == s # << >> /\ \A i \in 1 .. Len(s) : IsDigit(s[i])
IsRange(raw) == HasChar(raw, "-")
RangeStart(raw) == SubSeq(raw, 1, FirstChar(raw, "-") - 1)
RangeEnd(raw) == SubSeq(raw, FirstChar(raw, "-") + 1, Len(raw))
IsZero(s) == IsInt(s) /\ ParseDigits(s, 0) = 0
IsPositive(s) == IsInt(s) /\ ParseDigits(s, 0) >= 1

\* The item is a single index 0, or a range with an endpoint that is 0 or empty.
ZeroOrEmptyItem(raw) ==
    IF IsRange(raw)
    THEN \/ IsZero(RangeStart(raw)) \/ IsZero(RangeEnd(raw))
         \/ RangeStart(raw) = << >> \/ RangeEnd(raw) = << >>
    ELSE IsZero(raw)

\* The item is a positive single or a range of two positive integers.
PositiveItem(raw) ==
    IF IsRange(raw) THEN IsPositive(RangeStart(raw)) /\ IsPositive(RangeEnd(raw))
    ELSE IsPositive(raw)

\* The item is a single 0, or a range of two integers one of which is 0.
LowItem(raw) ==
    IF IsRange(raw)
    THEN /\ IsInt(RangeStart(raw)) /\ IsInt(RangeEnd(raw))
         /\ (IsZero(RangeStart(raw)) \/ IsZero(RangeEnd(raw)))
    ELSE IsZero(raw)

ParseReturned == args # None /\ Unwrap(args).op = "parse_indices" /\ ret # None
ParsedItems == Items(Unwrap(args).spec)
HasZeroOrEmptyItem == \E k \in 1 .. Len(ParsedItems) : ZeroOrEmptyItem(ParsedItems[k])
FirstNotPositive ==
    ParsedItems[CHOOSE k \in 1 .. Len(ParsedItems) :
                    /\ ~PositiveItem(ParsedItems[k])
                    /\ \A m \in 1 .. k - 1 : PositiveItem(ParsedItems[m])]

\* C13 as claimed: a specification with a single index 0, a range endpoint 0
\* or an empty range endpoint is rejected with VariantIndexLow.
C13_ZeroOrEmptyIsIndexLow ==
    (ParseReturned /\ HasZeroOrEmptyItem)
    => (~Unwrap(ret).ok /\ Unwrap(ret).error = "VariantIndexLow")

\* C13 as amended: such a specification is never accepted; the error is that
\* of the first item that is not a positive single or range: VariantIndexLow
\* when it is a single 0 or a range of two integers one of which is 0,
\* VariantIndexInt when one of its endpoints is empty or not an integer.
C13_ZeroOrEmptyRejected ==
    (ParseReturned /\ HasZeroOrEmptyItem)
    => /\ ~Unwrap(ret).ok
       /\ Unwrap(ret).error =
              IF LowItem(FirstNotPositive) THEN "VariantIndexLow" ELSE "VariantIndexInt"

\* "2,1-0" has been rejected with VariantIndexLow.
C13_Witness ==
    /\ ParseReturned
    /\ Unwrap(args).spec = <<"2", ",", "1", "-", "0">>
    /\ Unwrap(ret).error = "VariantIndexLow"

\* The 0-based indices a positive item stands for.
ItemIndices(raw) ==
    IF IsRange(raw)
    THEN LET a == ParseDigits(RangeStart(raw), 0)
             b == ParseDigits(RangeEnd(raw), 0)
         IN  { i - 1 : i \in Min(a, b) .. Max(a, b) }
    ELSE {ParseDigits(raw, 0) - 1}

\* C14: a specification of positive singles and ranges only is accepted, and
\* the set returned is the union over its items of { k-1 } for a single k and
\* { i-1 : min(a,b) <= i <= max(a,b) } for a range a-b; "1-30000" gives the
\* first 30000 variants.
C14_OneBasedToZeroBasedSet ==
    (ParseReturned /\ \A k \in 1 .. Len(ParsedItems) : PositiveItem(ParsedItems[k]))
    => /\ Unwrap(ret).ok
       /\ Unwrap(ret).indices =
              UNION { ItemIndices(ParsedItems[k]) : k \in 1 .. Len(ParsedItems) }
       /\ Unwrap(args).spec = FirstCoreVariants =>
              Unwrap(ret).indices = 0 .. CORE_VARIANTS - 1

\* "2-1,1": a reversed range and a single inside it give {0, 1}.
C14_Witness ==
    /\ ParseReturned
    /\ Unwrap(args).spec = <<"2", "-", "1", ",", "1">>
    /\ Unwrap(ret).ok
    /\ Unwrap(ret).indices = {0, 1}

(***************************************************************************)
(* Properties of build_pair_indices_to_count and Counts::new (SpecPairs).  *)
(***************************************************************************)
Built == args # None /\ Unwrap(args).op = "build_pair_indices_to_count" /\ ret # None
BuiltOk == Built /\ Unwrap(ret).ok
SampleIndices == 0 .. Len(Unwrap(args).samples) - 1

\* Some listed pair names samples i and j, in either order.
ListsPair(i, j) ==
    LET a == Unwrap(args)
        l == Unwrap(a.sample_pairs)
    IN  \E k \in 1 .. Len(l) :
            \/ l[k] = <<a.samples[i + 1], a.samples[j + 1]>>
            \/ l[k] = <<a.samples[j + 1], a.samples[i + 1]>>

C16_AtThresholdKept ==
    (BuiltOk /\ Unwrap(args).min_covered_snps > 0 /\ Unwrap(args).sample_pairs = None)
    => LET a == Unwrap(args)
       IN  /\ \A i \in SampleIndices : \A j \in SampleIndices :
                 (/\ i # j
                  /\ a.covered_snps[i + 1] >= a.min_covered_snps
                  /\ a.covered_snps[j + 1] >= a.min_covered_snps)
                 => should_count_pair(i, j)
           /\ a = LimitSitesCase =>
                 Cardinality({ p \in SampleIndices \X SampleIndices :
                                 p[1] < p[2] /\ should_count_pair(p[1], p[2]) }) = 6

NoPairAdmitted ==
    \A i \in SampleIndices : \A j \in SampleIndices : ~should_count_pair(i, j)

\* C17 as claimed: with an explicit pair list, a run that goes on past
\* build_pair_indices_to_count computes at least one pair.
C17_EmptyPairSetFails ==
    (Built /\ Unwrap(args).sample_pairs # None /\ result # "err") => ~NoPairAdmitted

\* C17 as amended: an empty pair list fails with SamplePairsEmpty and ends the
\* run; a list whose pairs are all removed by the coverage threshold does not:
\* the run goes on with no pair admitted, and this happens only when the
\* threshold is applied and every listed pair has a sample covered <= T.
C17_EmptyListFailsFilteredListDoesNot ==
    (Built /\ Unwrap(args).sample_pairs # None)
    => LET a == Unwrap(args)
           l == Unwrap(a.sample_pairs)
       IN  /\ l = << >> =>
                 /\ ~Unwrap(ret).ok
                 /\ Unwrap(ret).error = "SamplePairsEmpty"
                 /\ result = "err"
           /\ Unwrap(ret).ok => result = "running"
           /\ (Unwrap(ret).ok /\ NoPairAdmitted) =>
                 /\ a.min_covered_snps > 0
                 /\ l # << >>
                 /\ \A k \in 1 .. Len(l) : \E m \in 1 .. 2 : \E i \in SampleIndices :
                       /\ a.samples[i + 1] = l[k][m]
                       /\ a.covered_snps[i + 1] <= a.min_covered_snps

\* The one listed pair (A,B) is removed because A is covered at the threshold:
\* the run goes on with an empty pair set.
C17_Witness ==
    /\ BuiltOk
    /\ Unwrap(args).samples = <<"A", "B">>
    /\ Unwrap(args).sample_pairs = Some(<< <<"A", "B">> >>)
    /\ Unwrap(args).covered_snps = <<1, 2>>
    /\ Unwrap(args).min_covered_snps = 1
    /\ Unwrap(ret).value = Some({})
    /\ result = "running"
    /\ NoPairAdmitted

(***************************************************************************)
(* Properties of resolve_sample_pairs (SpecResolve).                       *)
(***************************************************************************)
Resolved == args # None /\ Unwrap(args).op = "resolve_sample_pairs" /\ ret # None
ResolveIds == { Unwrap(args).samples[i] : i \in 1 .. Len(Unwrap(args).samples) }
ListedIds ==
    { Unwrap(args).pairs[k][m] : k \in 1 .. Len(Unwrap(args).pairs), m \in 1 .. 2 }
TwiceListed ==
    { Unwrap(args).pairs[k][1] : k \in { q \in 1 .. Len(Unwrap(args).pairs) :
          Unwrap(args).pairs[q][1] = Unwrap(args).pairs[q][2] } }
IndexOf(id) ==
    CHOOSE i \in 0 .. Len(Unwrap(args).samples) - 1 : Unwrap(args).samples[i + 1] = id

\* C19: a non-empty list of pairs of distinct known identifiers resolves to
\* the set of (lo,hi), lo < hi, one per distinct unordered listed pair; a
\* pair naming one identifier twice fails with SamplePairDuplicate naming
\* it, a listed identifier that is not a sample fails with
\* SamplePairUnknownSample naming it.
C19_PairsResolveToOrderedIndexPairs ==
    Resolved =>
        LET l == Unwrap(args).pairs
            r == Unwrap(ret)
        IN  /\ (l # << >> /\ TwiceListed = {} /\ ListedIds \subseteq ResolveIds) =>
                  /\ r.ok
                  /\ \A p \in r.pairs : p[1] < p[2]
                  /\ r.pairs = { <<Min(IndexOf(l[k][1]), IndexOf(l[k][2])),
                                   Max(IndexOf(l[k][1]), IndexOf(l[k][2]))>> :
                                 k \in 1 .. Len(l) }
            /\ (TwiceListed # {} \/ ~(ListedIds \subseteq ResolveIds)) =>
                  /\ ~r.ok
                  /\ r.error \in {"SamplePairDuplicate", "SamplePairUnknownSample"}
                  /\ r.error = "SamplePairDuplicate" => r.sample \in TwiceListed
                  /\ r.error = "SamplePairUnknownSample" =>
                        r.sample \in ListedIds \ ResolveIds
                  /\ ListedIds \subseteq ResolveIds => r.error = "SamplePairDuplicate"
                  /\ TwiceListed = {} => r.error = "SamplePairUnknownSample"

\* (C,A) and (A,C) have resolved to the one entry (0,2).
C19_Witness ==
    /\ Resolved
    /\ Unwrap(args).samples = <<"A", "B", "C">>
    /\ Unwrap(args).pairs = << <<"C", "A">>, <<"A", "C">> >>
    /\ Unwrap(ret).ok
    /\ Unwrap(ret).pairs = {<<0, 2>>}

(***************************************************************************)
(* Properties of select_samples (SpecSelect).                              *)
(***************************************************************************)
Selected == args # None /\ Unwrap(args).op = "select_samples" /\ ret # None
FileIds == { Unwrap(args).samples[i] : i \in 1 .. Len(Unwrap(args).samples) }

\* The 0-based positions of the file's samples whose identifier is in F.
PositionsIn(F) ==
    { i \in 0 .. Len(Unwrap(args).samples) - 1 : Unwrap(args).samples[i + 1] \in F }

\* C18: with a filter F whose identifiers are all in the file, select_samples
\* returns the file's samples with an identifier in F in file order, and their
\* strictly increasing 0-based positions; an identifier of F that is not in
\* the file fails with SamplePairUnknownSample naming such an identifier;
\* without a filter the list comes back unchanged, with no index list.
C18_SelectKeepsNamedSamplesInOrder ==
    Selected =>
        LET a == Unwrap(args)
            r == Unwrap(ret)
        IN  IF a.filter = None
            THEN r.ok /\ r.samples = a.samples /\ r.indices = None
            ELSE LET F == Unwrap(a.filter)
                 IN  IF F \subseteq FileIds
                     THEN /\ r.ok
                          /\ r.samples = SelectSeq(a.samples, LAMBDA id : id \in F)
                          /\ r.indices # None
                          /\ LET ix == Unwrap(r.indices)
                             IN  /\ Len(ix) = Len(r.samples)
                                 /\ { ix[k] : k \in 1 .. Len(ix) } = PositionsIn(F)
                                 /\ \A k \in 1 .. Len(ix) - 1 : ix[k] < ix[k + 1]
                     ELSE /\ ~r.ok
                          /\ r.sample \in F \ FileIds

(***************************************************************************)
(* Properties of the 2-bit decoders (SpecDecode).                          *)
(***************************************************************************)
Decoded(op) == args # None /\ Unwrap(args).op = op /\ ret # None

\* The code tables, indexed by code + 1.
PackedTable == <<Alt, Het, Ref, Missing>>
PlinkTable == <<Ref, Missing, Het, Alt>>

\* The pair of bits of byte that starts `shift` bits above its lowest bit.
BitPair(byte, shift) == (byte \div (2 ^ shift)) % 4

\* The byte of a block that holds position i (four positions to a byte).
ByteOf(block, i) == block[(i \div 4) + 1]

\* The Packed-Matrix decoder reads sample s of a variant block at shift
\* 6 - 2 * (s mod 4) and maps the code by the packed table.
PackedReadsMostSignificantFirst ==
    Decoded("packed_block") =>
        LET a == Unwrap(args)
            r == Unwrap(ret)
        IN  /\ Len(r) = a.n_samples
            /\ \A s \in 0 .. a.n_samples - 1 :
                  r[s + 1] = PackedTable[BitPair(ByteOf(a.block, s), 6 - 2 * (s % 4)) + 1]

\* The block of sample s in a transposed matrix.
SampleBlock(matrix, s) == SubSeq(matrix, s * BlockBytes + 1, (s + 1) * BlockBytes)

\* The PLINK decoder reads sample s of a variant block from the lowest pair up
\* and maps the code by the PLINK table; with a sample filter it decodes the
\* kept positions only.
PlinkUsesItsOwnTable ==
    Decoded("plink_block") =>
        LET a == Unwrap(args)
            r == Unwrap(ret)
            kept == IF a.indices_to_keep = None
                    THEN [k \in 1 .. a.n_samples |-> k - 1]
                    ELSE Unwrap(a.indices_to_keep)
        IN  /\ Len(r) = Len(kept)
            /\ \A k \in 1 .. Len(kept) :
                  r[k] = PlinkTable[BitPair(ByteOf(a.block, kept[k]), 2 * (kept[k] % 4)) + 1]

\* C20 as stated: in the row a decoder yields for a variant, the Packed-Matrix
\* and the Transposed decoder read the code of sample position s at shift
\* 6 - 2 * (s mod 4) and map it by the packed table; the PLINK decoder maps by
\* the PLINK table.
C20_CodeAtShiftOfSamplePosition ==
    /\ PackedReadsMostSignificantFirst
    /\ PlinkUsesItsOwnTable
    /\ Decoded("transposed_row") =>
          LET a == Unwrap(args)
              r == Unwrap(ret)
          IN  /\ Len(r) = a.n_samples
              /\ \A s \in 0 .. a.n_samples - 1 :
                    r[s + 1] = PackedTable[BitPair(ByteOf(SampleBlock(a.genotype_matrix, s),
                                                          a.variant_idx),
                                                   6 - 2 * (s % 4)) + 1]

\* C20 (amended): the Packed-Matrix decoder reads sample s of a variant block
\* at shift 6 - 2 * (s mod 4); the Transposed decoder reads variant v of every
\* sample's block at shift 6 - 2 * (v mod 4), whatever the sample position;
\* both map 00 -> Alt, 01 -> Het, 10 -> Ref, 11 -> Missing.  The PLINK decoder
\* reads sample s at shift 2 * (s mod 4) and maps 00 -> Ref, 01 -> Missing,
\* 10 -> Het, 11 -> Alt.
C20_CodeAtShiftOfBlockPosition ==
    /\ PackedReadsMostSignificantFirst
    /\ PlinkUsesItsOwnTable
    /\ Decoded("transposed_row") =>
          LET a == Unwrap(args)
              r == Unwrap(ret)
              v == a.variant_idx
          IN  /\ Len(r) = a.n_samples
              /\ \A s \in 0 .. a.n_samples - 1 :
                    r[s + 1] = PackedTable[BitPair(ByteOf(SampleBlock(a.genotype_matrix, s), v),
                                                   6 - 2 * (v % 4)) + 1]

\* Variant 1 of a transposed matrix whose two sample blocks start with
\* 00011011 and 11100100: both samples are read at shift 4.
C20_Witness ==
    /\ Decoded("transposed_row")
    /\ Unwrap(args).n_samples = 2
    /\ Unwrap(args).variant_idx = 1
    /\ Unwrap(args).genotype_matrix[1] = 27
    /\ Unwrap(args).genotype_matrix[BlockBytes + 1] = 228
    /\ Unwrap(ret) = <<Het, Ref>>

(***************************************************************************)
(* Properties of the Unpacked-Text stream (SpecReader).                    *)
(***************************************************************************)
\* The matrix lines the decoder has read: the stream has gone past line i (1-based)
\* and no earlier read failed.
LineRead(i) ==
    /\ rd.kind = "unpacked"
    /\ i <= Len(rd.lines)
    /\ i <= rd.n_variants
    /\ i <= rd.next_variant_idx
    /\ \A j \in 1 .. i : rd.lines[j] # "read_err"

C22_PrematureEndReportsLinesFound ==
    rd # NoReader =>
        \A k \in Pulls :
            (yielded[k].kind = "err" /\ yielded[k].error = "EigenstratGenoVariantCount") =>
                yielded[k].found = Len(rd.lines)

(***************************************************************************)
(* Properties of the parallel accumulation over a stream (SpecParStream).  *)
(***************************************************************************)
ErrorYielded == \E k \in Pulls : yielded[k].kind = "err"

\* C24: if the stream yields an error item, consume_reader_parallel returns an
\* error and never Ok, whatever the interleaving; and after the error item no
\* worker obtains a further Site from the stream.
C24_ErrorStopsParallelPass ==
    /\ (ErrorYielded /\ result # "running") => result = "err"
    /\ \A k \in Pulls : \A m \in Pulls :
          (k < m /\ yielded[k].kind = "err") => yielded[m].kind # "site"

(***************************************************************************)
(* Properties of run (SpecRun).                                            *)
(***************************************************************************)
Returned == ret # None
ReturnedOk == ret # None /\ Unwrap(ret).ok
ReturnedErr == ret # None /\ ~Unwrap(ret).ok
YieldedErrors == { yielded[k].error : k \in { m \in Pulls : yielded[m].kind = "err" } }

\* C23: if the first open fails, run returns the error with nothing written;
\* once a pull of the coverage pass or of the accumulation pass has yielded an
\* error, the accumulation never returns Ok(Counts), run can only return an
\* error the stream yielded, and no output is ever written; a file is written,
\* and run returns Ok, only after the accumulation has returned Ok.
C23_FailureWritesNothing ==
    IsRun =>
        /\ (rd = NoReader /\ Returned) => (ReturnedErr /\ outputs = {})
        /\ ErrorYielded =>
              /\ outputs = {}
              /\ rates = None
              /\ result # "ok"
              /\ result = "none" => ReturnedErr
              /\ Returned => (ReturnedErr /\ Unwrap(ret).error \in YieldedErrors)
        /\ (outputs # {} \/ ReturnedOk) => (result = "ok" /\ ~ErrorYielded)

\* A parallel run whose accumulation pass met a line of the wrong length: run
\* has returned the error and written nothing.
C23_Witness ==
    /\ IsRun
    /\ ~Sequential
    /\ result = "err"
    /\ ret = Some(RunErr("EigenstratGenoFields"))
    /\ outputs = {}

(***************************************************************************)
(* Properties of the choice of the accumulation (SpecMode).                *)
(***************************************************************************)
ModeChosen == args # None /\ Unwrap(args).op = "accumulation_mode" /\ ret # None

\* C25: run accumulates sequentially if and only if no thread count is given
\* and there are fewer than 500 samples, or the thread count is exactly 1; in
\* every other case it accumulates in parallel.
C25_SequentialBelowThresholdOrOneThread ==
    ModeChosen =>
        LET a == Unwrap(args)
            sequential == \/ a.threads = None /\ a.n_samples <= 499
                          \/ a.threads = <<1>>
        IN  Unwrap(ret) = IF sequential THEN "consume_reader" ELSE "consume_reader_parallel"

\* 500 samples and no thread count: the parallel accumulation.
C25_Witness ==
    /\ ModeChosen
    /\ Unwrap(args).threads = None
    /\ Unwrap(args).n_samples = 500
    /\ Unwrap(ret) = "consume_reader_parallel"

(***************************************************************************)
(* Properties of the report under a pair mask (Spec).                      *)
(***************************************************************************)
\* The rows written for the pair of sample indices i < j.
RowsOf(i, j) ==
    { k \in 1 .. Len(Unwrap(rates)) :
        /\ Unwrap(rates)[k].id1 = samples[i + 1]
        /\ Unwrap(rates)[k].id2 = samples[j + 1] }

\* A pair set was given and holds the pair in neither order.
NotListed(i, j) ==
    /\ pairs_given # None
    /\ <<i, j>> \notin Unwrap(pairs_given)
    /\ <<j, i>> \notin Unwrap(pairs_given)

OpenedOk == args # None /\ Unwrap(args).op = "open" /\ ret # None /\ Unwrap(ret).ok

NoRepeat(seq) == \A i \in 1 .. Len(seq) : \A j \in 1 .. Len(seq) : i # j => seq[i] # seq[j]

\* C27: the sample set of a successfully constructed decoder, with or without
\* a sample filter, holds no identifier twice, also when the sidecar lists an
\* identifier on two lines; it is the same after every pull.
C27_SampleSetHasNoRepeat ==
    OpenedOk => NoRepeat(Unwrap(ret).samples)

(***************************************************************************)
(* Properties of a Site and its sample set (SpecSite).                     *)
(***************************************************************************)
SitePulled == args # None /\ Unwrap(args).op = "site" /\ ret # None /\ Unwrap(ret).opened

\* The 0-based file positions of the samples the decoder exposes, in order.
Retained ==
    IF Unwrap(ret).indices = None
    THEN [k \in 1 .. Len(Unwrap(args).ind) |-> k - 1]
    ELSE Unwrap(Unwrap(ret).indices)

\* A matrix line without its blanks.
Stripped(line) == SelectSeq(line, LAMBDA c : c # " ")

\* The characters of the calls, indexed by allele + 1.
CallChars == <<"2", "1", "0", "9">>

\* The call the matrix holds for the sample at file position p.
CallOf(a, p) ==
    IF a.kind = "packed"
    THEN PackedTable[BitPair(ByteOf(a.data, p), 6 - 2 * (p % 4)) + 1]
    ELSE IF a.kind = "transposed"
    THEN PackedTable[BitPair(ByteOf(SampleBlock(a.data, p), a.variant_idx),
                             6 - 2 * (a.variant_idx % 4)) + 1]
    ELSE IF a.kind = "plink"
    THEN PlinkTable[BitPair(ByteOf(a.data, p), 2 * (p % 4)) + 1]
    ELSE CHOOSE x \in Alleles : CallChars[x + 1] = Stripped(a.data)[p + 1]

\* C28: a Site has as many genotypes as samples() has samples, and its k-th
\* genotype is the call of the k-th sample of samples(), which with a sample
\* filter is the k-th retained sample of the file, in file order; so every
\* cell index of a pair of the Site is below n*n.
C28_SiteFollowsSampleSet ==
    (SitePulled /\ Unwrap(ret).item.outcome = "site") =>
        LET a == Unwrap(args)
            r == Unwrap(ret)
            g == r.item.genotypes
            n == Len(r.samples)
        IN  /\ Len(g) = n
            /\ Len(Retained) = n
            /\ \A k \in 1 .. n :
                  /\ r.samples[k] = a.ind[Retained[k] + 1]
                  /\ g[k] = CallOf(a, Retained[k])
                  /\ \A m \in 1 .. n : k < m => Retained[k] < Retained[m]
            /\ \A i \in 0 .. Len(g) - 1 : \A j \in 0 .. Len(g) - 1 :
                  i < j => idx_from_parts(n, i, j) < n * n

\* The line "0 19" of the sidecar [B, A, C] filtered to A and C: the Site holds
\* the calls of positions 1 and 2.
C28_Witness ==
    /\ SitePulled
    /\ Unwrap(args).kind = "unpacked"
    /\ Unwrap(args).ind = <<"B", "A", "C">>
    /\ Unwrap(args).data = <<"0", " ", "1", "9">>
    /\ Unwrap(ret).samples = <<"A", "C">>
    /\ Unwrap(ret).item = SiteOf(<<Het, Missing>>)

\* C30: a pull of the Unpacked-Text decoder on a kept line of the right
\* stripped length returns a Site whose genotypes are the calls of its
\* characters ('0' Alt, '1' Het, '2' Ref, '9' Missing) or an error item; a
\* character that is none of the four never aborts the decoder and is never
\* decoded as an allele.
C30_ForeignCharacterIsAnErrorItem ==
    (/\ SitePulled
     /\ Unwrap(args).kind = "unpacked"
     /\ Len(Stripped(Unwrap(args).data)) = Len(Unwrap(args).ind)) =>
        LET a == Unwrap(args)
            item == Unwrap(ret).item
            line == Stripped(a.data)
        IN  /\ item.outcome \in {"site", "err"}
            /\ item.outcome = "site" =>
                  \A k \in 1 .. Len(Retained) :
                      /\ line[Retained[k] + 1] \in {"0", "1", "2", "9"}
                      /\ item.genotypes[k] =
                            (CASE line[Retained[k] + 1] = "0" -> Alt
                               [] line[Retained[k] + 1] = "1" -> Het
                               [] line[Retained[k] + 1] = "2" -> Ref
                               [] line[Retained[k] + 1] = "9" -> Missing)

(***************************************************************************)
(* Properties of the header block (SpecHeader).                            *)
(***************************************************************************)
\* C29: opening a Packed-Matrix or Transposed matrix file shorter than one
\* header block, the empty file included, returns PackedAncestryMapFileSize;
\* it never panics.
C29_ShortFileIsFileSizeError ==
    (/\ args # None
     /\ Unwrap(args).op = "read_header_block"
     /\ ret # None
     /\ Unwrap(args).file_len < 48) =>
        Unwrap(ret) = "PackedAncestryMapFileSize"

====
